---- MODULE Spec2Model ----
(***************************************************************************)
(* Model of the SSD1306 OLED driver in src/src/hardware/OLED.c, built      *)
(* with OLED_I2C_TYPE == 1, OLED_USE_DMA == 1 and OLED_DOUBLE_BUFFER == 1  *)
(* (OLED.h:16-17, OLED.c:9).                                               *)
(*                                                                         *)
(* Two contexts run: the main thread, which calls the public functions,    *)
(* and the DMA transfer-complete interrupt, which preempts it.  The main   *)
(* thread's position inside a blocking call is pc; the interrupt handler   *)
(* runs to completion as one step.                                         *)
(*                                                                         *)
(* Three specifications share the variables: Spec (with LiveSpec and       *)
(* SpecOK) is the transfer engine; DrawSpec applies one drawing primitive  *)
(* to the bytes of the bitmaps; TextSpec (with TextLive) runs the render   *)
(* loop of OLED_Printf over one expanded string.                           *)
(***************************************************************************)
EXTENDS Integers, Sequences, FiniteSets, TLC

\* ------------------------------------------------------------------------
\* Program constants
\* ------------------------------------------------------------------------
OLED_PAGE_COUNT   == 8
OLED_COLUMN_COUNT == 128
OLED_HEIGHT       == 64
OLED_COLOR_BLACK  == 0
OLED_COLOR_WHITE  == 1
BUFFER_A          == 0
BUFFER_B          == 1
Uint8Mod          == 256
Uint16Mod         == 65536
OLED_WIDTH        == 128
ByteBits          == 8
OLED_8X16         == 16
OLED_6X8          == 8
OLED_CHN_CHAR_WIDTH == 3
HASH_TABLE_SIZE   == 131
CharLF            == 10
CharCR            == 13
CharSpace         == 32
CharTilde         == 126

\* ------------------------------------------------------------------------
\* Bounds of the model
\* ------------------------------------------------------------------------
\* the bitmaps are followed through one pixel per page (bit 0 of column 0),
\* and pages 0..MaxDrawPage are drawn into
MaxDrawPage == 0
\* OLED_UpdateArea is called with a rectangle it accepts at most this often
MaxAreaCalls == 2
\* backgrounds 0..MaxSeed the bitmaps hold before a drawing call
MaxSeed == 2
\* longest expanded string handed to the render loop of OLED_Printf
MaxStrLen == 3
\* the largest radius of an arc
MaxRadius == 2
\* entries of the largest glyph catalog: two more than the index holds
MaxGlyphs == 133

Pages     == 0 .. (OLED_PAGE_COUNT - 1)
DrawPages == 0 .. MaxDrawPage
Colors    == {OLED_COLOR_BLACK, OLED_COLOR_WHITE}
Bitmaps   == {"OLED_GRAM1", "OLED_GRAM2"}

\* rectangles handed to OLED_UpdateArea: <<x1, y1, x2, y2>>
\* on the screen, fully outside it on each side, and partly beyond an edge
AreaRects == { <<0, 0, 127, 15>>, <<3, 8, 10, 8>>,
               <<128, 0, 130, 7>>, <<-9, 0, -1, 7>>,
               <<0, 64, 5, 70>>, <<0, -8, 5, -1>>,
               <<-2, 0, 5, 7>> }

VARIABLES
    gram,                       \* contents of OLED_GRAM1 / OLED_GRAM2
    OLED_GRAM,                  \* active buffer pointer
    OLED_DISPLAY_GRAM,          \* display buffer pointer
    active_buffer,
    display_buffer,
    OLED_DMA_TransferBusy,
    OLED_DMA_TransferComplete,
    current_dma_page,
    current_dma_buffer,
    dma,                        \* DMA channel: enabled bit, CMAR, CNDTR
    pc,                         \* main thread position
    area,                       \* locals of OLED_UpdateArea
    ret,                        \* last value returned by OLED_UpdateAsync
    \* history of the current / last full-frame session
    last,                       \* the operation that made the last step
    session,                    \* "none" | "live" | "done" | "aborted"
    begun,                      \* pages whose page-begin sequence was invoked
    completions,                \* completion signals handled in the session
    disp_writes,                \* writes of OLED_DISPLAY_GRAM in the session
    timed_out,                  \* a page-begin of the session timed out
    req_active,                 \* OLED_GRAM at the moment of the request
    snapshot,                   \* contents of that bitmap at the request
    sent,                       \* bitmaps the session's block transfers read
    committed,                  \* bitmap of the last fully completed transfer
    area_page0,                 \* current_dma_page when the area update began
    area_calls,                 \* area updates that passed the parameter check
    \* drawing and text output, followed byte by byte
    fb,                         \* bytes of OLED_GRAM1 / OLED_GRAM2
    fb0,                        \* those bytes when the current call was made
    call,                       \* the drawing call in hand and its arguments
    phase,                      \* times the call in hand has been applied
    outside,                    \* <<page, column>> indices of the call beyond the bitmap
    rect,                       \* OLED_DrawRectangle: wrapped X, Y and counter i
    divisors,                   \* charts: the divisors the call divided by
    strPtr,                     \* OLED_Printf: read position in String
    currentX,                   \* OLED_Printf: pen position
    currentY,
    drawn,                      \* glyphs handed to the blitters; entries looked up
    chineseHashTable,           \* used slots of the glyph index: slot -> entry
    isHashTableInitialized,
    catalog_i                   \* OLED_InitChineseHashTable: loop counter i

progVars == <<gram, OLED_GRAM, OLED_DISPLAY_GRAM, active_buffer, display_buffer,
              OLED_DMA_TransferBusy, OLED_DMA_TransferComplete,
              current_dma_page, current_dma_buffer, dma, pc, area, ret>>
histVars == <<last, session, begun, completions, disp_writes, timed_out,
              req_active, snapshot, sent, committed, area_page0,
              area_calls>>
drawVars == <<fb, fb0, call, phase, outside, rect, divisors>>
textVars == <<strPtr, currentX, currentY, drawn, chineseHashTable,
              isHashTableInitialized, catalog_i>>
pureVars == <<drawVars, textVars>>
vars == <<progVars, histVars, pureVars>>

\* ------------------------------------------------------------------------
\* Helpers
\* ------------------------------------------------------------------------
\* C integer division truncates toward zero
CDiv(a, b) == IF a >= 0 THEN a \div b ELSE -((-a) \div b)

\* (sel == BUFFER_A) ? OLED_GRAM1 : OLED_GRAM2
GramOf(sel) == IF sel = BUFFER_A THEN "OLED_GRAM1" ELSE "OLED_GRAM2"

OtherBuffer_same(sel) == sel
\* active_buffer = (active_buffer == BUFFER_A) ? BUFFER_B : BUFFER_A
OtherBuffer(sel) == IF sel = BUFFER_A THEN BUFFER_B ELSE BUFFER_A

AsyncRejected_never(busy) == FALSE
\* if (OLED_DMA_TransferBusy) return 0;
AsyncRejected(busy) == busy # 0

NextPage_skip(page) == (page + 2) % Uint8Mod
\* current_dma_page++  (volatile uint8_t)
NextPage(page) == (page + 1) % Uint8Mod

PageSource_active(buffer_select, activePtr) == activePtr
\* CMAR = (buffer_select == 0) ? OLED_GRAM1[page] : OLED_GRAM2[page]
PageSource(buffer_select, activePtr) ==
    IF buffer_select = 0 THEN "OLED_GRAM1" ELSE "OLED_GRAM2"

SwapCommit_other(buffer_select) ==
    IF buffer_select = 0 THEN "OLED_GRAM2" ELSE "OLED_GRAM1"
\* OLED_DISPLAY_GRAM = (current_dma_buffer == 0) ? OLED_GRAM1 : OLED_GRAM2
SwapCommit(buffer_select) ==
    IF buffer_select = 0 THEN "OLED_GRAM1" ELSE "OLED_GRAM2"

AllPagesSent_late(page) == page > OLED_PAGE_COUNT
\* the else branch of: if (current_dma_page < OLED_PAGE_COUNT)
AllPagesSent(page) == ~(page < OLED_PAGE_COUNT)

OLED_IsUpdating_idle(busy) == 0
\* return OLED_DMA_TransferBusy;
OLED_IsUpdating(busy) == busy

DmaOff == [on |-> FALSE, buf |-> "OLED_GRAM1", page |-> 0, col |-> 0, len |-> 0]
NoArea == [page |-> 0, end_page |-> 0, x1 |-> 0, data_len |-> 0]

\* OLED_StartDMATransferPage(page, buffer_select): ok says whether the four
\* bounded bus waits all succeeded.  The result carries the return value,
\* the DMA channel afterwards and the completion flag afterwards.
\* activePtr is OLED_GRAM at the time of the call.
OLED_StartDMATransferPage(page, buffer_select, ok, activePtr, dma0, complete0) ==
    IF ok
    THEN [ret      |-> 1,
          dma      |-> [on   |-> TRUE,
                        buf  |-> PageSource(buffer_select, activePtr),
                        page |-> page,
                        col  |-> 0,
                        len  |-> OLED_COLUMN_COUNT],
          complete |-> 0]
    ELSE [ret |-> 0, dma |-> dma0, complete |-> complete0]

\* ------------------------------------------------------------------------
\* Initial state: the static initialisers of OLED.c
\* ------------------------------------------------------------------------
\* no drawing call in hand
NoCall == [op |-> "none", x0 |-> 0, y0 |-> 0, x1 |-> 0, y1 |-> 0, color |-> 0]
\* OLED_DrawRectangle is not running
NoRect == [X |-> 0, Y |-> 0, i |-> 0]

\* the statics of OLED.c other than the bitmaps, as initialised
InitStatics ==
    /\ OLED_GRAM = "OLED_GRAM1"
    /\ OLED_DISPLAY_GRAM = "OLED_GRAM1"
    /\ active_buffer = BUFFER_A
    /\ display_buffer = BUFFER_A
    /\ OLED_DMA_TransferBusy = 0
    /\ OLED_DMA_TransferComplete = 0
    /\ current_dma_page = 0
    /\ current_dma_buffer = 0
    /\ dma = DmaOff
    /\ pc = "idle"
    /\ area = NoArea
    /\ ret = 0
    /\ last = "init"
    /\ session = "none"
    /\ begun = << >>
    /\ completions = 0
    /\ disp_writes = 0
    /\ timed_out = FALSE
    /\ req_active = "OLED_GRAM1"
    /\ snapshot = [p \in Pages |-> 0]
    /\ sent = {}
    /\ committed = "none"
    /\ area_page0 = 0
    /\ area_calls = 0

\* the text output loop at rest
InitText ==
    /\ strPtr = 0
    /\ currentX = 0
    /\ currentY = 0
    /\ drawn = << >>
    /\ chineseHashTable = << >>
    /\ isHashTableInitialized = 0
    /\ catalog_i = 0

\* The driver specification follows the bitmaps through gram, one pixel
\* per page; the byte image fb is followed by the drawing specification.
Init ==
    /\ InitStatics
    /\ gram = [b \in Bitmaps |-> [p \in Pages |-> 0]]
    /\ fb = << >>
    /\ fb0 = << >>
    /\ outside = {}
    /\ rect = NoRect
    /\ divisors = {}
    /\ call = NoCall
    /\ phase = 0
    /\ InitText

\* ------------------------------------------------------------------------
\* Drawing: every primitive writes through the active pointer OLED_GRAM.
\* OLED_DrawPoint(0, 8 * p, Color) sets or clears the followed pixel of
\* page p; a call that leaves the pixel as it is is not a step.
\* ------------------------------------------------------------------------
SetBit(bit, Color) == IF Color = OLED_COLOR_WHITE THEN 1 ELSE 0

Draw(p, Color) ==
    /\ pc = "idle"
    /\ gram[OLED_GRAM][p] # SetBit(gram[OLED_GRAM][p], Color)
    /\ gram' = [gram EXCEPT ![OLED_GRAM][p] = SetBit(@, Color)]
    /\ last' = "Draw"
    /\ UNCHANGED <<OLED_GRAM, OLED_DISPLAY_GRAM, active_buffer, display_buffer,
                   OLED_DMA_TransferBusy, OLED_DMA_TransferComplete,
                   current_dma_page, current_dma_buffer, dma, pc, area, ret>>
    /\ UNCHANGED <<session, begun, completions, disp_writes, timed_out,
                   req_active, snapshot, sent, committed, area_page0,
                   area_calls>>
    /\ UNCHANGED pureVars

\* ------------------------------------------------------------------------
\* OLED_UpdateAsync: ok is the outcome of the bus waits of page 0
\* ------------------------------------------------------------------------
UpdateAsyncBody(ok) ==
    IF AsyncRejected(OLED_DMA_TransferBusy)
    THEN /\ ret' = 0
         /\ UNCHANGED <<gram, OLED_GRAM, OLED_DISPLAY_GRAM, active_buffer,
                        display_buffer, OLED_DMA_TransferBusy,
                        OLED_DMA_TransferComplete, current_dma_page,
                        current_dma_buffer, dma, area>>
         /\ UNCHANGED <<session, begun, completions, disp_writes, timed_out,
                        req_active, snapshot, sent, committed, area_page0,
                   area_calls>>
    ELSE LET buf == active_buffer
             act == OtherBuffer(active_buffer)
             st  == OLED_StartDMATransferPage(0, buf, ok, GramOf(act), dma,
                                              OLED_DMA_TransferComplete)
         IN  /\ current_dma_buffer' = buf
             /\ display_buffer' = buf
             /\ active_buffer' = act
             /\ OLED_GRAM' = GramOf(act)
             /\ OLED_DISPLAY_GRAM' = GramOf(buf)
             /\ current_dma_page' = 0
             /\ dma' = st.dma
             /\ OLED_DMA_TransferComplete' = st.complete
             /\ OLED_DMA_TransferBusy' = IF st.ret = 1 THEN 1 ELSE 0
             /\ ret' = st.ret
             /\ UNCHANGED <<gram, area>>
             /\ session' = IF st.ret = 1 THEN "live" ELSE "aborted"
             /\ begun' = <<0>>
             /\ completions' = 0
             /\ disp_writes' = 1
             /\ timed_out' = (st.ret = 0)
             /\ req_active' = OLED_GRAM
             /\ snapshot' = gram[OLED_GRAM]
             /\ sent' = IF st.ret = 1 THEN {dma'.buf} ELSE {}
             /\ UNCHANGED <<committed, area_page0, area_calls>>

OLED_UpdateAsync(ok) ==
    /\ pc = "idle"
    /\ UpdateAsyncBody(ok)
    /\ last' = "OLED_UpdateAsync"
    /\ pc' = pc
    /\ UNCHANGED pureVars

\* ------------------------------------------------------------------------
\* OLED_DMA_IRQHandler: runs when the enabled block transfer has finished.
\* ok is the outcome of the bus waits of the next page's begin sequence.
\* ------------------------------------------------------------------------
OLED_DMA_IRQHandler(ok) ==
    /\ dma.on
    /\ LET page1  == NextPage(current_dma_page)
           dmaOff == [dma EXCEPT !.on = FALSE]
           st     == OLED_StartDMATransferPage(page1, current_dma_buffer, ok,
                                               OLED_GRAM, dmaOff, 1)
           inSess == session = "live"
       IN  /\ current_dma_page' = page1
           /\ IF ~AllPagesSent(page1)
              THEN /\ dma' = st.dma
                   /\ OLED_DMA_TransferComplete' = st.complete
                   /\ UNCHANGED <<OLED_DMA_TransferBusy, OLED_DISPLAY_GRAM>>
                   /\ begun' = IF inSess THEN Append(begun, page1) ELSE begun
                   /\ timed_out' = IF inSess /\ st.ret = 0 THEN TRUE ELSE timed_out
                   /\ sent' = IF inSess /\ st.ret = 1
                              THEN sent \cup {st.dma.buf} ELSE sent
                   /\ UNCHANGED <<session, disp_writes, committed>>
              ELSE /\ ok
                   /\ dma' = dmaOff
                   /\ OLED_DMA_TransferComplete' = 1
                   /\ OLED_DMA_TransferBusy' = 0
                   /\ OLED_DISPLAY_GRAM' = SwapCommit(current_dma_buffer)
                   /\ session' = IF inSess THEN "done" ELSE session
                   /\ disp_writes' = IF inSess THEN disp_writes + 1 ELSE disp_writes
                   /\ committed' = IF inSess
                                   THEN SwapCommit(current_dma_buffer)
                                   ELSE committed
                   /\ UNCHANGED <<begun, timed_out, sent>>
           /\ completions' = IF inSess THEN completions + 1 ELSE completions
    /\ last' = "OLED_DMA_IRQHandler"
    /\ UNCHANGED <<gram, OLED_GRAM, active_buffer, display_buffer,
                   current_dma_buffer, pc, area, ret>>
    /\ UNCHANGED <<req_active, snapshot, area_page0, area_calls>>
    /\ UNCHANGED pureVars

\* ------------------------------------------------------------------------
\* OLED_Update: while (busy); OLED_UpdateAsync(); while (busy);
\* ------------------------------------------------------------------------
OLED_Update_Enter ==
    /\ pc = "idle"
    /\ pc' = "update_wait1"
    /\ last' = "OLED_Update"
    /\ UNCHANGED <<gram, OLED_GRAM, OLED_DISPLAY_GRAM, active_buffer,
                   display_buffer, OLED_DMA_TransferBusy,
                   OLED_DMA_TransferComplete, current_dma_page,
                   current_dma_buffer, dma, area, ret>>
    /\ UNCHANGED <<session, begun, completions, disp_writes, timed_out,
                   req_active, snapshot, sent, committed, area_page0,
                   area_calls>>
    /\ UNCHANGED pureVars

OLED_Update_Start(ok) ==
    /\ pc = "update_wait1"
    /\ OLED_DMA_TransferBusy = 0
    /\ UpdateAsyncBody(ok)
    /\ pc' = "update_wait2"
    /\ last' = "OLED_Update"
    /\ UNCHANGED pureVars

OLED_Update_Return ==
    /\ pc = "update_wait2"
    /\ OLED_DMA_TransferBusy = 0
    /\ pc' = "idle"
    /\ last' = "OLED_Update_return"
    /\ UNCHANGED <<gram, OLED_GRAM, OLED_DISPLAY_GRAM, active_buffer,
                   display_buffer, OLED_DMA_TransferBusy,
                   OLED_DMA_TransferComplete, current_dma_page,
                   current_dma_buffer, dma, area, ret>>
    /\ UNCHANGED <<session, begun, completions, disp_writes, timed_out,
                   req_active, snapshot, sent, committed, area_page0,
                   area_calls>>
    /\ UNCHANGED pureVars

\* ------------------------------------------------------------------------
\* OLED_UpdateArea(x1, y1, x2, y2)
\* ------------------------------------------------------------------------
\* variant without the test of the right edge against column 0
AreaRejected_noleft(x1, y1, x2, y2) ==
    \/ x1 >= OLED_COLUMN_COUNT
    \/ y1 >= OLED_HEIGHT
    \/ y2 < 0
    \/ x1 > x2
    \/ y1 > y2

AreaRejected(x1, y1, x2, y2) ==
    \/ x1 >= OLED_COLUMN_COUNT
    \/ y1 >= OLED_HEIGHT
    \/ x2 < 0
    \/ y2 < 0
    \/ x1 > x2
    \/ y1 > y2

AreaUnchanged ==
    /\ UNCHANGED <<gram, OLED_GRAM, OLED_DISPLAY_GRAM, active_buffer,
                   display_buffer, current_dma_page, current_dma_buffer, ret>>
    /\ UNCHANGED <<session, begun, completions, disp_writes, timed_out,
                   req_active, snapshot, sent, committed>>

\* the parameter check and the three locals
OLED_UpdateArea_Enter(r) ==
    /\ pc = "idle"
    /\ IF AreaRejected(r[1], r[2], r[3], r[4])
       THEN /\ last' = "OLED_UpdateArea_rejected"
            /\ UNCHANGED <<pc, area, area_calls>>
       ELSE /\ area_calls < MaxAreaCalls
            /\ area_calls' = area_calls + 1
            /\ last' = "OLED_UpdateArea"
            /\ pc' = "area_wait"
            /\ area' = [page     |-> CDiv(r[2], 8) % Uint8Mod,
                        end_page |-> CDiv(r[4], 8) % Uint8Mod,
                        x1       |-> r[1],
                        data_len |-> (r[3] - r[1] + 1) % Uint16Mod]
    /\ UNCHANGED <<OLED_DMA_TransferBusy, OLED_DMA_TransferComplete, dma,
                   area_page0>>
    /\ AreaUnchanged
    /\ UNCHANGED pureVars

\* while (OLED_DMA_TransferBusy); OLED_DMA_TransferBusy = 1;
OLED_UpdateArea_Acquire ==
    /\ pc = "area_wait"
    /\ OLED_DMA_TransferBusy = 0
    /\ OLED_DMA_TransferBusy' = 1
    /\ pc' = "area_loop"
    /\ area_page0' = current_dma_page /\ UNCHANGED area_calls
    /\ last' = "OLED_UpdateArea"
    /\ UNCHANGED <<OLED_DMA_TransferComplete, dma, area>>
    /\ AreaUnchanged
    /\ UNCHANGED pureVars

\* one pass of the page loop up to the start of the block transfer; ok is
\* the outcome of its four bounded bus waits
OLED_UpdateArea_Page(ok) ==
    /\ pc = "area_loop"
    /\ area.page <= area.end_page
    /\ IF ok
       THEN /\ OLED_DMA_TransferComplete' = 0
            /\ dma' = [on   |-> TRUE,
                       buf  |-> OLED_DISPLAY_GRAM,
                       page |-> area.page,
                       col  |-> area.x1,
                       len  |-> area.data_len]
            /\ pc' = "area_dma"
            /\ last' = "OLED_UpdateArea"
            /\ UNCHANGED <<OLED_DMA_TransferBusy, area>>
       ELSE /\ OLED_DMA_TransferBusy' = 0
            /\ pc' = "idle"
            /\ area' = NoArea
            /\ last' = "OLED_UpdateArea_return"
            /\ UNCHANGED <<OLED_DMA_TransferComplete, dma>>
    /\ UNCHANGED <<area_page0, area_calls>>
    /\ AreaUnchanged
    /\ UNCHANGED pureVars

\* while (!OLED_DMA_TransferComplete && --timeout); leaves with the flag set
OLED_UpdateArea_DmaDone ==
    /\ pc = "area_dma"
    /\ OLED_DMA_TransferComplete # 0
    /\ pc' = "area_btf"
    /\ last' = "OLED_UpdateArea"
    /\ UNCHANGED <<OLED_DMA_TransferBusy, OLED_DMA_TransferComplete, dma,
                   area, area_page0, area_calls>>
    /\ AreaUnchanged
    /\ UNCHANGED pureVars

\* the same loop leaves with timeout == 0
OLED_UpdateArea_DmaTimeout ==
    /\ pc = "area_dma"
    /\ OLED_DMA_TransferComplete = 0
    /\ pc' = "area_abort"
    /\ last' = "OLED_UpdateArea"
    /\ UNCHANGED <<OLED_DMA_TransferBusy, OLED_DMA_TransferComplete, dma,
                   area, area_page0, area_calls>>
    /\ AreaUnchanged
    /\ UNCHANGED pureVars

\* if (timeout == 0) { DMA_Cmd(DISABLE); OLED_DMA_TransferBusy = 0; return; }
OLED_UpdateArea_Abort ==
    /\ pc = "area_abort"
    /\ dma' = [dma EXCEPT !.on = FALSE]
    /\ OLED_DMA_TransferBusy' = 0
    /\ pc' = "idle"
    /\ area' = NoArea
    /\ last' = "OLED_UpdateArea_return"
    /\ UNCHANGED <<OLED_DMA_TransferComplete, area_page0, area_calls>>
    /\ AreaUnchanged
    /\ UNCHANGED pureVars

\* the wait for BYTE_TRANSMITTED, the stop condition and page++
OLED_UpdateArea_Stop(ok) ==
    /\ pc = "area_btf"
    /\ IF ok
       THEN /\ area' = [area EXCEPT !.page = (@ + 1) % Uint8Mod]
            /\ pc' = "area_loop"
            /\ last' = "OLED_UpdateArea"
            /\ UNCHANGED OLED_DMA_TransferBusy
       ELSE /\ OLED_DMA_TransferBusy' = 0
            /\ pc' = "idle"
            /\ area' = NoArea
            /\ last' = "OLED_UpdateArea_return"
    /\ UNCHANGED <<OLED_DMA_TransferComplete, dma, area_page0, area_calls>>
    /\ AreaUnchanged
    /\ UNCHANGED pureVars

\* the loop is left: OLED_DMA_TransferBusy = 0
OLED_UpdateArea_Finish ==
    /\ pc = "area_loop"
    /\ ~(area.page <= area.end_page)
    /\ OLED_DMA_TransferBusy' = 0
    /\ pc' = "idle"
    /\ area' = NoArea
    /\ last' = "OLED_UpdateArea_return"
    /\ UNCHANGED <<OLED_DMA_TransferComplete, dma, area_page0, area_calls>>
    /\ AreaUnchanged
    /\ UNCHANGED pureVars

\* ------------------------------------------------------------------------
\* Specifications
\* ------------------------------------------------------------------------
BusOutcomes == BOOLEAN

Next ==
    \/ \E p \in DrawPages, c \in Colors : Draw(p, c)
    \/ \E ok \in BusOutcomes : OLED_UpdateAsync(ok)
    \/ \E ok \in BusOutcomes : OLED_DMA_IRQHandler(ok)
    \/ OLED_Update_Enter
    \/ \E ok \in BusOutcomes : OLED_Update_Start(ok)
    \/ OLED_Update_Return
    \/ \E r \in AreaRects : OLED_UpdateArea_Enter(r)
    \/ OLED_UpdateArea_Acquire
    \/ \E ok \in BusOutcomes : OLED_UpdateArea_Page(ok)
    \/ OLED_UpdateArea_DmaDone
    \/ OLED_UpdateArea_DmaTimeout
    \/ OLED_UpdateArea_Abort
    \/ \E ok \in BusOutcomes : OLED_UpdateArea_Stop(ok)
    \/ OLED_UpdateArea_Finish

Spec == Init /\ [][Next]_vars

TypeOK ==
    /\ gram \in [Bitmaps -> [Pages -> {0, 1}]]
    /\ OLED_GRAM \in Bitmaps
    /\ OLED_DISPLAY_GRAM \in Bitmaps
    /\ active_buffer \in {BUFFER_A, BUFFER_B}
    /\ display_buffer \in {BUFFER_A, BUFFER_B}
    /\ OLED_DMA_TransferBusy \in {0, 1}
    /\ OLED_DMA_TransferComplete \in {0, 1}
    /\ current_dma_page \in 0 .. (Uint8Mod - 1)
    /\ current_dma_buffer \in {0, 1}
    /\ dma.on \in BOOLEAN
    /\ pc \in {"idle", "update_wait1", "update_wait2", "area_wait",
               "area_loop", "area_dma", "area_abort", "area_btf"}
    /\ ret \in {0, 1}
    /\ session \in {"none", "live", "done", "aborted"}

\* outside OLED_UpdateArea no block transfer is in flight while the busy
\* flag is clear, and none is in flight when the area update starts a pass
\* of its page loop: the steps of the main thread that the model takes as
\* one action cannot be preempted by the handler
NoStrayTransfer ==
    /\ (OLED_DMA_TransferBusy = 0
          /\ pc \in {"idle", "update_wait1", "update_wait2", "area_wait"})
       => ~dma.on
    /\ pc \in {"area_loop", "area_btf"} => ~dma.on

\* steps the main thread takes inside a blocking call
MainStep ==
    \/ \E ok \in BusOutcomes : OLED_Update_Start(ok)
    \/ OLED_Update_Return
    \/ OLED_UpdateArea_Acquire
    \/ \E ok \in BusOutcomes : OLED_UpdateArea_Page(ok)
    \/ OLED_UpdateArea_DmaDone
    \/ OLED_UpdateArea_DmaTimeout
    \/ OLED_UpdateArea_Abort
    \/ \E ok \in BusOutcomes : OLED_UpdateArea_Stop(ok)
    \/ OLED_UpdateArea_Finish

\* the processor keeps executing the call it is in, and an enabled block
\* transfer finishes and raises its interrupt
LiveSpec ==
    /\ Init /\ [][Next]_vars
    /\ WF_vars(MainStep)
    /\ WF_vars(\E ok \in BusOutcomes : OLED_DMA_IRQHandler(ok))

\* every bounded bus wait succeeds and every block transfer completes
NextOK ==
    \/ \E p \in DrawPages, c \in Colors : Draw(p, c)
    \/ OLED_UpdateAsync(TRUE)
    \/ OLED_DMA_IRQHandler(TRUE)
    \/ OLED_Update_Enter
    \/ OLED_Update_Start(TRUE)
    \/ OLED_Update_Return
    \/ \E r \in AreaRects : OLED_UpdateArea_Enter(r)
    \/ OLED_UpdateArea_Acquire
    \/ OLED_UpdateArea_Page(TRUE)
    \/ OLED_UpdateArea_DmaDone
    \/ OLED_UpdateArea_Stop(TRUE)
    \/ OLED_UpdateArea_Finish

MainStepOK ==
    \/ OLED_Update_Start(TRUE)
    \/ OLED_Update_Return
    \/ OLED_UpdateArea_Acquire
    \/ OLED_UpdateArea_Page(TRUE)
    \/ OLED_UpdateArea_DmaDone
    \/ OLED_UpdateArea_Stop(TRUE)
    \/ OLED_UpdateArea_Finish

SpecOK ==
    /\ Init /\ [][NextOK]_vars
    /\ WF_vars(MainStepOK)
    /\ WF_vars(OLED_DMA_IRQHandler(TRUE))

\* ------------------------------------------------------------------------
\* Claims
\* ------------------------------------------------------------------------
AreaPcs == {"area_loop", "area_dma", "area_abort", "area_btf"}
PagesUpTo(n) == [i \in 1 .. n |-> i - 1]

\* C1: OLED_UpdateAsync called while the busy flag is set returns 0 and
\* leaves the in-flight session's page counter, its source-buffer snapshot,
\* the active/display selection, the busy flag, the block transfer in flight
\* and the bitmaps unchanged.
C1_BusyRejected ==
    [][(OLED_DMA_TransferBusy # 0 /\ last' = "OLED_UpdateAsync")
       => /\ ret' = 0
          /\ UNCHANGED <<current_dma_page, current_dma_buffer, OLED_GRAM,
                         OLED_DISPLAY_GRAM, active_buffer, display_buffer,
                         OLED_DMA_TransferBusy, dma, gram, session, begun>>]_vars

\* a call was rejected while a session that had already sent pages was live
C1_Witness ==
    /\ last = "OLED_UpdateAsync"
    /\ ret = 0
    /\ OLED_DMA_TransferBusy = 1
    /\ session = "live"
    /\ current_dma_page = 3
    /\ dma.on

\* C2: in a session started by OLED_UpdateAsync the page-begin sequences are
\* invoked for pages 0,1,2,... in increasing order without gaps, page k+1
\* only once k+1 completion signals have been handled, and a finished
\* session has invoked exactly the 8 sequences of pages 0..7.
C2_PagesInOrder ==
    session \in {"live", "done"}
    => /\ begun = PagesUpTo(IF completions < OLED_PAGE_COUNT
                            THEN completions + 1 ELSE OLED_PAGE_COUNT)
       /\ (session = "done" => completions = OLED_PAGE_COUNT)
       /\ (session = "live" /\ dma.on => dma.page = completions)

C2_Witness ==
    /\ session = "done"
    /\ begun = <<0, 1, 2, 3, 4, 5, 6, 7>>
    /\ completions = OLED_PAGE_COUNT

\* C3: the display-buffer designation is written exactly once per session
\* and only while the 8th completion is handled: not at all while the
\* session is live, once when it is done.
C3_SingleDisplayWrite ==
    /\ (session = "live" => disp_writes = 0)
    /\ (session = "done" => disp_writes = 1)

\* C4: while a session is live every block transfer of it reads the bitmap
\* that was active at the request, the active bitmap is the other one, and
\* the transmitted bitmap still holds what it held at the request.
C4_SessionReadsSnapshot ==
    session = "live"
    => /\ sent \subseteq {req_active}
       /\ (dma.on => dma.buf = req_active)
       /\ OLED_GRAM # req_active
       /\ gram[req_active] = snapshot

\* a drawing operation ran while page 2 of the session was in flight
C4_Witness ==
    /\ session = "live"
    /\ last = "Draw"
    /\ dma.on
    /\ dma.page = 2
    /\ gram[OLED_GRAM] # gram[req_active]

\* C5: after the 8th completion of a session the display buffer is the
\* bitmap the session sent and the active buffer is the other bitmap.
C5_SwapAfterCompletion ==
    session = "done"
    => /\ sent = {OLED_DISPLAY_GRAM}
       /\ OLED_DISPLAY_GRAM = req_active
       /\ OLED_GRAM # OLED_DISPLAY_GRAM

\* the second frame, sent from OLED_GRAM2, has just completed
C5_Witness ==
    /\ session = "done"
    /\ last = "OLED_DMA_IRQHandler"
    /\ OLED_DISPLAY_GRAM = "OLED_GRAM2"
    /\ OLED_GRAM = "OLED_GRAM1"

\* C6: once a bus wait of a page-begin sequence of a session has timed out,
\* OLED_IsUpdating returns 0 (outside OLED_UpdateArea, which sets the flag
\* for its own transfer).
C6_TimeoutClearsBusy ==
    (timed_out /\ pc \notin AreaPcs) => OLED_IsUpdating(OLED_DMA_TransferBusy) = 0

\* C7: after a session was cut short by a timeout the display buffer is
\* still the bitmap of the last fully completed transfer.
C7_AbortKeepsDisplay ==
    (timed_out /\ committed # "none") => OLED_DISPLAY_GRAM = committed

\* C8: OLED_Update always returns.
C8_UpdateReturns ==
    (pc \in {"update_wait1", "update_wait2"}) ~> (pc = "idle")

\* C9: when every bus wait succeeds and every block transfer completes, a
\* session is busy (OLED_IsUpdating = 1) as long as it is live and it ends
\* with the busy flag clear after exactly 8 completions.
C9_SessionEnds ==
    /\ [](session = "live" => OLED_IsUpdating(OLED_DMA_TransferBusy) = 1)
    /\ [](session = "done" => completions = OLED_PAGE_COUNT)
    /\ (session = "live")
         ~> (session = "done" /\ OLED_IsUpdating(OLED_DMA_TransferBusy) = 0)

C9_Witness ==
    /\ session = "done"
    /\ completions = OLED_PAGE_COUNT
    /\ last = "OLED_DMA_IRQHandler"
    /\ OLED_DMA_TransferBusy = 0

\* a rectangle with x1 <= x2 and y1 <= y2 that has no pixel on the screen
FullyOutside(r) ==
    /\ r[1] <= r[3]
    /\ r[2] <= r[4]
    /\ \/ r[3] < 0
       \/ r[1] > OLED_COLUMN_COUNT - 1
       \/ r[4] < 0
       \/ r[2] > OLED_HEIGHT - 1

\* C11: OLED_UpdateArea called with a rectangle fully outside the screen
\* returns at once: it starts no block transfer, leaves the DMA channel,
\* the busy flag and the completion flag as they are, and never enters its
\* page loop.
C11_OutsideIsNoOp ==
    [][\A r \in AreaRects :
          (FullyOutside(r) /\ OLED_UpdateArea_Enter(r))
          => /\ pc' = "idle"
             /\ UNCHANGED <<dma, OLED_DMA_TransferBusy,
                            OLED_DMA_TransferComplete, area, current_dma_page>>]_vars

\* such a call was made while a full-frame session was in flight
C11_Witness ==
    /\ last = "OLED_UpdateArea_rejected"
    /\ pc = "idle"
    /\ OLED_DMA_TransferBusy = 1
    /\ dma.on
    /\ \E r \in AreaRects : FullyOutside(r)

\* C12: every block transfer reads inside the bitmap: its page is in 0..7,
\* its first column in 0..127 and its last column no further than 127.
C12_ReadsInsideBitmap ==
    dma.on => /\ dma.page \in Pages
              /\ dma.col >= 0
              /\ dma.col + dma.len <= OLED_COLUMN_COUNT

\* C13: OLED_UpdateAsync returns 0 only when the busy flag was set at its
\* call.
C13_ZeroOnlyWhenBusy ==
    [][(last' = "OLED_UpdateAsync" /\ ret' = 0) => OLED_DMA_TransferBusy # 0]_vars

\* C14 as stated: the active buffer and the display buffer are distinct
\* bitmaps in every reachable state.
C14_AlwaysDistinct ==
    OLED_GRAM # OLED_DISPLAY_GRAM

\* C14 as amended: from the first full-frame update request that passed
\* the busy check on (completed, live or aborted) the active buffer and the
\* display buffer are distinct bitmaps.
C14_DistinctAfterFirstRequest ==
    session # "none"
    => /\ OLED_GRAM # OLED_DISPLAY_GRAM
       /\ active_buffer # display_buffer

\* a drawing operation ran after the second request was aborted at page 0
C14_Witness ==
    /\ session = "aborted"
    /\ committed = "OLED_GRAM1"
    /\ last = "Draw"
    /\ OLED_GRAM = "OLED_GRAM1"
    /\ OLED_DISPLAY_GRAM = "OLED_GRAM2"

\* C10: when OLED_UpdateArea has returned and no block transfer is pending,
\* current_dma_page has the value it had when the area update began.
C10_AreaKeepsCursor ==
    (last = "OLED_UpdateArea_return" /\ ~dma.on) => current_dma_page = area_page0

\* ------------------------------------------------------------------------
\* Drawing primitives on the byte image of the bitmaps
\* ------------------------------------------------------------------------
Columns == 0 .. (OLED_COLUMN_COUNT - 1)
ByteBitIdx == 0 .. (ByteBits - 1)

\* bit k of byte v
Bit(v, k) == (v \div (2 ^ k)) % 2

RECURSIVE FromBits(_, _)
FromBits(f, k) == IF k = ByteBits THEN 0 ELSE f[k] * (2 ^ k) + FromBits(f, k + 1)

\* C operators |, &, ^ and ~ on uint8_t operands
ByteOr(a, b) ==
    FromBits([k \in ByteBitIdx |-> IF Bit(a, k) = 1 \/ Bit(b, k) = 1 THEN 1 ELSE 0], 0)
ByteAnd(a, b) ==
    FromBits([k \in ByteBitIdx |-> IF Bit(a, k) = 1 /\ Bit(b, k) = 1 THEN 1 ELSE 0], 0)
ByteNot(a) ==
    FromBits([k \in ByteBitIdx |-> 1 - Bit(a, k)], 0)
\* variant that sets bits instead of toggling them
ByteXor_or(a, b) ==
    FromBits([k \in ByteBitIdx |-> IF Bit(a, k) = 1 \/ Bit(b, k) = 1 THEN 1 ELSE 0], 0)
ByteXor(a, b) ==
    FromBits([k \in ByteBitIdx |-> IF Bit(a, k) # Bit(b, k) THEN 1 ELSE 0], 0)

\* OLED_CHECK_COORDINATES: TRUE when the macro makes the caller return
OLED_CHECK_COORDINATES(x, y) ==
    x < 0 \/ x >= OLED_WIDTH \/ y < 0 \/ y >= OLED_HEIGHT

\* variant that shifts by the page index
PixelMask_page(Y) == 2 ^ CDiv(Y, OLED_PAGE_COUNT)
\* 0x01 << (Y % 8)
PixelMask(Y) == 2 ^ (Y % ByteBits)

\* OLED_DrawPoint on image img with active pointer act
DrawPointOn(img, act, X, Y, Color) ==
    IF OLED_CHECK_COORDINATES(X, Y)
    THEN img
    ELSE IF Color = OLED_COLOR_WHITE
         THEN [img EXCEPT ![act][CDiv(Y, ByteBits)][X] = ByteOr(@, PixelMask(Y))]
         ELSE [img EXCEPT ![act][CDiv(Y, ByteBits)][X] =
                              ByteAnd(@, ByteNot(PixelMask(Y)))]

\* variant that clears the first page only
ClearLen_page == OLED_COLUMN_COUNT
\* the byte count handed to memset
ClearLen == OLED_PAGE_COUNT * OLED_COLUMN_COUNT

\* OLED_Clear: memset over the first ClearLen bytes of the active bitmap
ClearOn(img, act) ==
    [img EXCEPT ![act] =
        [p \in Pages |-> [c \in Columns |->
            IF p * OLED_COLUMN_COUNT + c < ClearLen THEN 0 ELSE img[act][p][c]]]]

\* OLED_Reverse: every byte of the active bitmap ^= 0xFF
ReverseOn(img, act) ==
    [img EXCEPT ![act] =
        [p \in Pages |-> [c \in Columns |-> ByteXor(img[act][p][c], Uint8Mod - 1)]]]

\* variant without the exchange of the end points
LineStart_noswap(x0, x1) == x0
LineStart(x0, x1) == IF x0 > x1 THEN x1 ELSE x0
LineEnd(x0, x1) == IF x0 > x1 THEN x0 ELSE x1

\* for (x = x; x <= x1; x++) OLED_DrawPoint(x, y0, 1)
RECURSIVE HLineOn(_, _, _, _, _)
HLineOn(img, act, x, x1, y0) ==
    IF x <= x1
    THEN HLineOn(DrawPointOn(img, act, x, y0, 1), act, x + 1, x1, y0)
    ELSE img

\* for (y = y; y <= y1; y++) OLED_DrawPoint(x0, y, 1)
RECURSIVE VLineOn(_, _, _, _, _)
VLineOn(img, act, x0, y, y1) ==
    IF y <= y1
    THEN VLineOn(DrawPointOn(img, act, x0, y, 1), act, x0, y + 1, y1)
    ELSE img

\* the point drawn for (x, y) of the transformed line
PlotOn(img, act, x, y, yflag, xyflag) ==
    IF yflag /\ xyflag THEN DrawPointOn(img, act, y, -x, 1)
    ELSE IF yflag      THEN DrawPointOn(img, act, x, -y, 1)
    ELSE IF xyflag     THEN DrawPointOn(img, act, y, x, 1)
    ELSE                    DrawPointOn(img, act, x, y, 1)

\* while (x < x1) of the Bresenham branch
RECURSIVE BresenhamOn(_, _, _, _, _, _, _, _, _, _)
BresenhamOn(img, act, x, y, d, x1, incrE, incrNE, yflag, xyflag) ==
    IF x < x1
    THEN LET y2 == IF d < 0 THEN y ELSE y + 1
             d2 == IF d < 0 THEN d + incrE ELSE d + incrNE
         IN  BresenhamOn(PlotOn(img, act, x + 1, y2, yflag, xyflag), act,
                         x + 1, y2, d2, x1, incrE, incrNE, yflag, xyflag)
    ELSE img

\* the sloped branch of OLED_DrawLine
SlopedLineOn(img, act, X0, Y0, X1, Y1) ==
    LET sw     == X0 > X1
        ax0    == IF sw THEN X1 ELSE X0
        ay0    == IF sw THEN Y1 ELSE Y0
        ax1    == IF sw THEN X0 ELSE X1
        ay1    == IF sw THEN Y0 ELSE Y1
        yflag  == ay0 > ay1
        by0    == IF yflag THEN -ay0 ELSE ay0
        by1    == IF yflag THEN -ay1 ELSE ay1
        xyflag == by1 - by0 > ax1 - ax0
        cx0    == IF xyflag THEN by0 ELSE ax0
        cy0    == IF xyflag THEN ax0 ELSE by0
        cx1    == IF xyflag THEN by1 ELSE ax1
        cy1    == IF xyflag THEN ax1 ELSE by1
        dx     == cx1 - cx0
        dy     == cy1 - cy0
    IN  BresenhamOn(PlotOn(img, act, cx0, cy0, yflag, xyflag), act, cx0, cy0,
                    2 * dy - dx, cx1, 2 * dy, 2 * (dy - dx), yflag, xyflag)

\* OLED_DrawLine; the Color argument is not read
DrawLineOn(img, act, X0, Y0, X1, Y1, Color) ==
    IF OLED_CHECK_COORDINATES(X0, Y0) \/ OLED_CHECK_COORDINATES(X1, Y1)
    THEN img
    ELSE IF Y0 = Y1
         THEN HLineOn(img, act, LineStart(X0, X1), LineEnd(X0, X1), Y0)
         ELSE IF X0 = X1
              THEN VLineOn(img, act, X0, LineStart(Y0, Y1), LineEnd(Y0, Y1))
              ELSE SlopedLineOn(img, act, X0, Y0, X1, Y1)

\* ------------------------------------------------------------------------
\* Drawing specification: one drawing call, on any background, with either
\* bitmap active
\* ------------------------------------------------------------------------
Seeds == 0 .. MaxSeed

\* what the bitmaps hold before the call: blank, all lit, or a mixed image
Background(seed) ==
    [b \in Bitmaps |-> [p \in Pages |-> [c \in Columns |->
        IF seed = 0 THEN 0
        ELSE IF seed = 1 THEN Uint8Mod - 1
        ELSE (37 * seed * c + 11 * p + (IF b = "OLED_GRAM1" THEN 0 ELSE 5))
                 % Uint8Mod]]]

\* the pixel of each page that gram follows
GramView(img) == [b \in Bitmaps |-> [p \in Pages |-> Bit(img[b][p][0], 0)]]

PointXs == {-1, 0, 5, 127, 128}
PointYs == {-1, 0, 7, 8, 63, 64}
\* lines are kept short, near the right and the bottom edge
LineXs == {118, 127, 128}
LineYs == {52, 63}

DrawCalls ==
    {[op |-> "OLED_DrawPoint", x0 |-> x, y0 |-> y, x1 |-> 0, y1 |-> 0,
      color |-> c] : x \in PointXs, y \in PointYs, c \in Colors}
    \cup {[NoCall EXCEPT !.op = "OLED_Clear"], [NoCall EXCEPT !.op = "OLED_Reverse"]}
    \cup {[op |-> "OLED_DrawLine", x0 |-> xa, y0 |-> ya, x1 |-> xb, y1 |-> yb,
           color |-> c] : xa \in LineXs, ya \in LineYs, xb \in LineXs,
                          yb \in LineYs, c \in Colors}

DrawInit ==
    /\ InitStatics
    /\ InitText
    /\ \E seed \in Seeds : fb = Background(seed)
    /\ fb0 = fb
    /\ outside = {}
    /\ rect = NoRect
    /\ divisors = {}
    /\ gram = GramView(fb)
    /\ call \in DrawCalls
    /\ phase = 0

\* what a drawing call leaves alone
DrawUnchanged ==
    /\ UNCHANGED <<OLED_GRAM, OLED_DISPLAY_GRAM, active_buffer, display_buffer,
                   OLED_DMA_TransferBusy, OLED_DMA_TransferComplete,
                   current_dma_page, current_dma_buffer, dma, pc, area, ret>>
    /\ UNCHANGED <<session, begun, completions, disp_writes, timed_out,
                   req_active, snapshot, sent, committed, area_page0,
                   area_calls>>
    /\ UNCHANGED <<fb0, call, outside, rect, divisors, textVars>>

\* a full-frame request made before the call exchanges the active bitmap
DrawSwitch(ok) ==
    /\ phase = 0
    /\ OLED_UpdateAsync(ok)

OLED_DrawPoint ==
    /\ pc = "idle"
    /\ call.op = "OLED_DrawPoint"
    /\ phase = 0
    /\ fb' = DrawPointOn(fb, OLED_GRAM, call.x0, call.y0, call.color)
    /\ gram' = GramView(fb')
    /\ phase' = 1
    /\ last' = "OLED_DrawPoint"
    /\ DrawUnchanged

OLED_Clear ==
    /\ pc = "idle"
    /\ call.op = "OLED_Clear"
    /\ phase = 0
    /\ fb' = ClearOn(fb, OLED_GRAM)
    /\ gram' = GramView(fb')
    /\ phase' = 1
    /\ last' = "OLED_Clear"
    /\ DrawUnchanged

\* OLED_Reverse, called up to two times in a row
OLED_Reverse ==
    /\ pc = "idle"
    /\ call.op = "OLED_Reverse"
    /\ phase < 2
    /\ fb' = ReverseOn(fb, OLED_GRAM)
    /\ gram' = GramView(fb')
    /\ phase' = phase + 1
    /\ last' = "OLED_Reverse"
    /\ DrawUnchanged

OLED_DrawLine ==
    /\ pc = "idle"
    /\ call.op = "OLED_DrawLine"
    /\ phase = 0
    /\ fb' = DrawLineOn(fb, OLED_GRAM, call.x0, call.y0, call.x1, call.y1,
                        call.color)
    /\ gram' = GramView(fb')
    /\ phase' = 1
    /\ last' = "OLED_DrawLine"
    /\ DrawUnchanged

DrawNext ==
    \/ \E ok \in BusOutcomes : DrawSwitch(ok)
    \/ OLED_DrawPoint
    \/ OLED_Clear
    \/ OLED_Reverse
    \/ OLED_DrawLine

DrawSpec == DrawInit /\ [][DrawNext]_vars

\* the image is well formed, and gram shows its followed pixels
DrawTypeOK ==
    /\ fb \in [Bitmaps -> [Pages -> [Columns -> 0 .. (Uint8Mod - 1)]]]
    /\ gram = GramView(fb)
    /\ phase \in 0 .. 2

\* ------------------------------------------------------------------------
\* Claims about the drawing primitives
\* ------------------------------------------------------------------------
\* byte v with bit k made equal to b
WithBit(v, k, b) == v - Bit(v, k) * (2 ^ k) + b * (2 ^ k)

\* (x, y) is a pixel of the screen
OnScreen(x, y) == x \in 0 .. (OLED_WIDTH - 1) /\ y \in 0 .. (OLED_HEIGHT - 1)

\* C15: after OLED_DrawPoint(x, y, Color) with (x, y) on the screen, bit
\* y mod 8 of byte [y / 8][x] of the active bitmap is 1 for WHITE and 0 for
\* BLACK, and every other bit of both bitmaps is as before; with (x, y) off
\* the screen both bitmaps are as before.
C15_DrawPointBit ==
    (call.op = "OLED_DrawPoint" /\ phase = 1)
    => \A b \in Bitmaps, p \in Pages, c \in Columns :
          fb[b][p][c] =
              IF /\ OnScreen(call.x0, call.y0)
                 /\ b = OLED_GRAM
                 /\ p = call.y0 \div 8
                 /\ c = call.x0
              THEN WithBit(fb0[b][p][c], call.y0 % 8,
                           IF call.color = OLED_COLOR_WHITE THEN 1 ELSE 0)
              ELSE fb0[b][p][c]

\* a pixel of OLED_GRAM2 was lit on a background where it was dark
C15_Witness ==
    /\ call.op = "OLED_DrawPoint"
    /\ phase = 1
    /\ call.color = OLED_COLOR_WHITE
    /\ call.y0 = 8
    /\ OLED_GRAM = "OLED_GRAM2"
    /\ fb # fb0

\* C16: after OLED_Clear every byte of the active bitmap is zero.
C16_ClearZeroes ==
    (call.op = "OLED_Clear" /\ phase = 1)
    => \A p \in Pages, c \in Columns : fb[OLED_GRAM][p][c] = 0

\* OLED_GRAM2 was active and held a lit page 7 before it was cleared
C16_Witness ==
    /\ call.op = "OLED_Clear"
    /\ phase = 1
    /\ OLED_GRAM = "OLED_GRAM2"
    /\ fb0["OLED_GRAM2"][OLED_PAGE_COUNT - 1][OLED_COLUMN_COUNT - 1] # 0
    /\ fb["OLED_GRAM1"] = fb0["OLED_GRAM1"]

\* C17: after two calls of OLED_Reverse in a row both bitmaps hold what
\* they held before the first.
C17_ReverseTwice ==
    (call.op = "OLED_Reverse" /\ phase = 2) => fb = fb0

\* a mixed image was reversed twice
C17_Witness ==
    /\ call.op = "OLED_Reverse"
    /\ phase = 2
    /\ fb0[OLED_GRAM][0][1] \notin {0, Uint8Mod - 1}

\* C18: after OLED_DrawLine(xa, y, xb, y, WHITE) with both end points on
\* the screen, the pixels of row y in columns min(xa, xb)..max(xa, xb) of
\* the active bitmap are lit and every other bit of both bitmaps is as
\* before.
C18_HorizontalLine ==
    ( /\ call.op = "OLED_DrawLine"
      /\ phase = 1
      /\ call.color = OLED_COLOR_WHITE
      /\ call.y0 = call.y1
      /\ OnScreen(call.x0, call.y0)
      /\ OnScreen(call.x1, call.y1) )
    => \A b \in Bitmaps, p \in Pages, c \in Columns :
          fb[b][p][c] =
              IF /\ b = OLED_GRAM
                 /\ p = call.y0 \div 8
                 /\ (call.x0 <= c /\ c <= call.x1) \/ (call.x1 <= c /\ c <= call.x0)
              THEN WithBit(fb0[b][p][c], call.y0 % 8, 1)
              ELSE fb0[b][p][c]

\* a line given right to left was drawn on a background it changes
C18_Witness ==
    /\ call.op = "OLED_DrawLine"
    /\ phase = 1
    /\ call.color = OLED_COLOR_WHITE
    /\ call.y0 = call.y1
    /\ call.x0 > call.x1
    /\ OnScreen(call.x0, call.y0)
    /\ fb # fb0

\* ------------------------------------------------------------------------
\* Text output: OLED_Printf and the glyph index
\* ------------------------------------------------------------------------
\* A C string is the sequence of its bytes; the terminator follows them.
\* str[i] for 0 <= i <= strlen(str)
ByteAt(str, i) == IF i < Len(str) THEN str[i + 1] ELSE 0

\* (b & 0x80) != 0
IsHigh(b) == Bit(b, ByteBits - 1) = 1

OLED_IsPureASCII(str) == \A i \in 1 .. Len(str) : ~IsHigh(str[i])

\* the names of the glyph catalog OLED_CF16x16, in its order: the catalog
\* that a lookup call is checked against, or else a three-byte key, a
\* two-byte key and another three-byte key
OLED_CF16x16 ==
    IF call.op = "OLED_FindChineseChar" THEN call.catalog
    ELSE << <<228, 184, 173>>, <<228, 184>>, <<229, 173, 151>> >>

\* OLED_HashString of the string that starts at byte i of str
RECURSIVE HashFrom(_, _, _, _)
HashFrom(str, i, k, hash) ==
    IF k < OLED_CHN_CHAR_WIDTH /\ ByteAt(str, i + k) # 0
    THEN HashFrom(str, i, k + 1, (hash * 31 + ByteAt(str, i + k)) % Uint16Mod)
    ELSE hash % HASH_TABLE_SIZE
OLED_HashString(str, i) == HashFrom(str, i, 0, 0)

\* the slot linear probing stops at when it looks for an unused one: the
\* loop leaves at the first count a of attempts that is HASH_TABLE_SIZE or
\* finds its slot unused
ProbeFree(table, hash, attempts) ==
    LET slot(a) == (hash + a - attempts) % HASH_TABLE_SIZE
        stops(a) == a = HASH_TABLE_SIZE \/ slot(a) \notin DOMAIN table
    IN  slot(CHOOSE a \in attempts .. HASH_TABLE_SIZE :
                 stops(a) /\ \A b \in attempts .. (a - 1) : ~stops(b))

\* one pass of the loop of OLED_InitChineseHashTable: catalog entry i goes
\* to the slot that probing stops at, unless that slot is used
InsertEntry(table, i) ==
    LET hash == ProbeFree(table, OLED_HashString(OLED_CF16x16[i], 0), 0)
    IN  IF hash \notin DOMAIN table
        THEN (hash :> i) @@ table
        ELSE table

\* the passes lo..hi of that loop, in their order
RECURSIVE FillTable(_, _, _)
FillTable(table, lo, hi) ==
    IF lo > hi THEN table
    ELSE IF lo = hi THEN InsertEntry(table, lo)
    ELSE FillTable(FillTable(table, lo, (lo + hi) \div 2), (lo + hi) \div 2 + 1, hi)

\* the loop runs over the entries before the first empty name
OLED_InitChineseHashTable(table, initialized) ==
    LET ends == {k \in 1 .. Len(OLED_CF16x16) : OLED_CF16x16[k] = << >>}
        count == IF ends = {} THEN Len(OLED_CF16x16)
                 ELSE (CHOOSE k \in ends : \A m \in ends : k <= m) - 1
    IN  IF initialized = 1 THEN table ELSE FillTable(<< >>, 1, count)

\* strncmp(name, str + i, 3) == 0
RECURSIVE StrnEq(_, _, _, _)
StrnEq(name, str, i, k) ==
    IF k = 3 THEN TRUE
    ELSE IF ByteAt(name, k) # ByteAt(str, i + k) THEN FALSE
    ELSE IF ByteAt(name, k) = 0 THEN TRUE
    ELSE StrnEq(name, str, i, k + 1)

\* the probing loop of OLED_FindChineseChar: the catalog entry found, 0 for
\* NULL; the loop leaves at the first count a of attempts that is
\* HASH_TABLE_SIZE or finds its slot unused or holding a name equal to str
ProbeFind(table, str, i, hash, attempts) ==
    LET slot(a) == (hash + a - attempts) % HASH_TABLE_SIZE
        stops(a) == \/ a = HASH_TABLE_SIZE
                    \/ slot(a) \notin DOMAIN table
                    \/ StrnEq(OLED_CF16x16[table[slot(a)]], str, i, 0)
        last_a == CHOOSE a \in attempts .. HASH_TABLE_SIZE :
                      stops(a) /\ \A b \in attempts .. (a - 1) : ~stops(b)
    IN  IF last_a < HASH_TABLE_SIZE /\ slot(last_a) \in DOMAIN table
        THEN table[slot(last_a)]
        ELSE 0

\* variant that looks at the first slot only
OLED_FindChineseChar_noprobe(table, str, i) ==
    LET hash == OLED_HashString(str, i)
    IN  IF ByteAt(str, i) # 0 /\ hash \in DOMAIN table
           /\ StrnEq(OLED_CF16x16[table[hash]], str, i, 0)
        THEN table[hash] ELSE 0
\* OLED_FindChineseChar(str + i) on the built table
OLED_FindChineseChar(table, str, i) ==
    IF ByteAt(str, i) = 0 THEN 0
    ELSE ProbeFind(table, str, i, OLED_HashString(str, i), 0)

\* lineHeight and charWidth of OLED_Printf
LineHeight(FontSize) == IF FontSize = OLED_8X16 THEN OLED_8X16 ELSE OLED_6X8
\* variant with the two pitches exchanged
CharWidth_swapped(lineHeight) == IF lineHeight = OLED_8X16 THEN 6 ELSE 8
CharWidth(lineHeight) == IF lineHeight = OLED_8X16 THEN 8 ELSE 6

\* OLED_DrawASCIIFast: the glyph it blits, if it blits one
OLED_DrawASCIIFast(glyphs, x, y, c, fontHeight) ==
    IF x < 0 \/ x >= 128 \/ y < 0 \/ y >= 64 \/ c < CharSpace \/ c > CharTilde
    THEN glyphs
    ELSE Append(glyphs, [c |-> c, x |-> x, y |-> y, h |-> fontHeight])

\* variant that always skips a whole three-byte sequence
FoundAdvance_always(str, i) == 3
\* bytes consumed after a glyph was found for the sequence at byte i
FoundAdvance(str, i) ==
    IF /\ Len(str) - i >= 3
       /\ IsHigh(ByteAt(str, i))
       /\ IsHigh(ByteAt(str, i + 1))
    THEN 3
    ELSE 1

\* bytes the expanded string is made of: a letter, line feed, carriage
\* return, tab, and the three bytes of the first catalog key
TextBytes == {65, CharLF, CharCR, 9, 228, 184, 173}

RECURSIVE StringsUpTo(_)
StringsUpTo(n) ==
    IF n = 0 THEN {<< >>}
    ELSE StringsUpTo(n - 1)
         \cup {Append(str, b) : str \in {t \in StringsUpTo(n - 1) : Len(t) = n - 1},
                                b \in TextBytes}

PrintfCalls ==
    [op : {"OLED_Printf"}, X : {120, 128}, Y : {48},
     FontSize : {OLED_6X8, 12, OLED_8X16}, String : StringsUpTo(MaxStrLen)]

TextInit ==
    /\ InitStatics
    /\ InitText
    /\ gram = [b \in Bitmaps |-> [p \in Pages |-> 0]]
    /\ fb = << >>
    /\ fb0 = << >>
    /\ outside = {}
    /\ rect = NoRect
    /\ divisors = {}
    /\ call \in PrintfCalls
    /\ phase = 0

\* what OLED_Printf leaves alone
TextUnchanged ==
    /\ UNCHANGED <<gram, OLED_GRAM, OLED_DISPLAY_GRAM, active_buffer,
                   display_buffer, OLED_DMA_TransferBusy,
                   OLED_DMA_TransferComplete, current_dma_page,
                   current_dma_buffer, dma, area, ret>>
    /\ UNCHANGED <<session, begun, completions, disp_writes, timed_out,
                   req_active, snapshot, sent, committed, area_page0,
                   area_calls>>
    /\ UNCHANGED <<fb, fb0, call, outside, rect, divisors, catalog_i>>

\* the parameter checks, the expansion into String and the choice of path
OLED_Printf_Enter ==
    /\ pc = "idle"
    /\ call.op = "OLED_Printf"
    /\ phase = 0
    /\ phase' = 1
    /\ last' = "OLED_Printf"
    /\ IF \/ OLED_CHECK_COORDINATES(call.X, call.Y)
          \/ (call.FontSize # 8 /\ call.FontSize # 16)
       THEN UNCHANGED <<pc, textVars>>
       ELSE /\ currentX' = call.X
            /\ currentY' = call.Y
            /\ strPtr' = 0
            /\ pc' = IF OLED_IsPureASCII(call.String)
                     THEN "printf_fast" ELSE "printf_std"
            /\ UNCHANGED <<drawn, chineseHashTable, isHashTableInitialized>>
    /\ TextUnchanged

\* one iteration on an ASCII byte b (the same code on both paths)
AsciiStep(b) ==
    LET lineHeight == LineHeight(call.FontSize)
    IN  IF b = CharLF
        THEN /\ currentY' = currentY + lineHeight
             /\ currentX' = call.X
             /\ strPtr' = strPtr + 1
             /\ UNCHANGED drawn
        ELSE IF b = CharCR
        THEN /\ currentX' = call.X
             /\ strPtr' = strPtr + 1
             /\ UNCHANGED <<currentY, drawn>>
        ELSE /\ drawn' = OLED_DrawASCIIFast(drawn, currentX, currentY, b, lineHeight)
             /\ currentX' = currentX + CharWidth(lineHeight)
             /\ strPtr' = strPtr + 1
             /\ UNCHANGED currentY

\* one pass of the while loop of the fast path
OLED_Printf_Fast ==
    /\ pc = "printf_fast"
    /\ last' = "OLED_Printf"
    /\ IF ByteAt(call.String, strPtr) = 0
       THEN /\ pc' = "idle"
            /\ UNCHANGED <<strPtr, currentX, currentY, drawn>>
       ELSE /\ AsciiStep(ByteAt(call.String, strPtr))
            /\ UNCHANGED pc
    /\ UNCHANGED <<chineseHashTable, isHashTableInitialized, phase>>
    /\ TextUnchanged

\* one pass of the while loop of the standard path
OLED_Printf_Std ==
    /\ pc = "printf_std"
    /\ last' = "OLED_Printf"
    /\ LET b == ByteAt(call.String, strPtr)
           table == OLED_InitChineseHashTable(chineseHashTable,
                                              isHashTableInitialized)
           chineseData == OLED_FindChineseChar(table, call.String, strPtr)
       IN  IF b = 0
           THEN /\ pc' = "idle"
                /\ UNCHANGED <<textVars>>
           ELSE IF ~IsHigh(b)
           THEN /\ AsciiStep(b)
                /\ UNCHANGED <<pc, chineseHashTable, isHashTableInitialized>>
           ELSE /\ chineseHashTable' = table
                /\ isHashTableInitialized' = 1
                /\ UNCHANGED <<pc, currentY>>
                /\ IF currentX >= 0 /\ currentY >= 0 /\ chineseData # 0
                   THEN /\ drawn' = Append(drawn, [c |-> OLED_CF16x16[chineseData],
                                                   x |-> currentX, y |-> currentY,
                                                   h |-> 16])
                        /\ currentX' = currentX + 16
                        /\ strPtr' = strPtr + FoundAdvance(call.String, strPtr)
                   ELSE /\ currentX' = currentX
                                       + CharWidth(LineHeight(call.FontSize))
                        /\ strPtr' = strPtr + 1
                        /\ UNCHANGED drawn
    /\ UNCHANGED phase
    /\ TextUnchanged

TextNext ==
    \/ OLED_Printf_Enter
    \/ OLED_Printf_Fast
    \/ OLED_Printf_Std

TextSpec == TextInit /\ [][TextNext]_vars

\* the main thread keeps running, so a call that can take a step takes it
TextLive == TextSpec /\ WF_vars(TextNext)

PrintfPcs == {"printf_fast", "printf_std"}

\* ------------------------------------------------------------------------
\* Claims about text output
\* ------------------------------------------------------------------------
\* C19: on a pure-ASCII string each pass of the render loop moves the pen
\* as follows.  A line feed adds the font height to Y, puts X back to the
\* start column and draws nothing; a carriage return puts X back to the
\* start column, keeps Y and draws nothing; a printable character adds the
\* pitch (6 for the 8-high font, 8 for the 16-high font) to X, keeps Y and,
\* with the pen on the screen, hands its glyph at the pen position to the
\* blitter; any other control character draws nothing.
C19_PenMoves ==
    [][(pc = "printf_fast" /\ ByteAt(call.String, strPtr) # 0)
       => LET b     == ByteAt(call.String, strPtr)
              pitch == IF call.FontSize = 8 THEN 6 ELSE 8
          IN  /\ b = 10 => /\ currentY' = currentY + call.FontSize
                           /\ currentX' = call.X
                           /\ drawn' = drawn
              /\ b = 13 => /\ currentY' = currentY
                           /\ currentX' = call.X
                           /\ drawn' = drawn
              /\ b \in 32 .. 126 =>
                     /\ currentX' = currentX + pitch
                     /\ currentY' = currentY
                     /\ drawn' = IF OnScreen(currentX, currentY)
                                 THEN Append(drawn, [c |-> b, x |-> currentX,
                                                     y |-> currentY,
                                                     h |-> call.FontSize])
                                 ELSE drawn
              /\ (b \notin 32 .. 126) => drawn' = drawn]_vars

\* "A\nA" was rendered in the 8-high font, both glyphs on the screen
C19_Witness ==
    /\ pc = "printf_fast"
    /\ call.String = <<65, 10, 65>>
    /\ call.FontSize = 8
    /\ strPtr = 3
    /\ currentX = call.X + 6
    /\ currentY = call.Y + 8
    /\ Len(drawn) = 2

\* C20: the render loop never reads beyond the terminator of the expanded
\* string, every pass that stays in the loop moves the read position
\* forward by at least one byte, and every call returns.
C20_LoopTerminates ==
    /\ [](call.op = "OLED_Printf" => strPtr <= Len(call.String))
    /\ [][(pc \in PrintfPcs /\ pc' \in PrintfPcs) => strPtr' >= strPtr + 1]_vars
    /\ (pc \in PrintfPcs) ~> (pc = "idle")

\* a string that ends in the middle of a three-byte sequence was rendered:
\* the letter, then the glyph of the two-byte key, then a lookup miss
C20_Witness ==
    /\ pc = "idle"
    /\ phase = 1
    /\ call.String = <<65, 228, 184>>
    /\ strPtr = 3
    /\ Len(drawn) = 2
    /\ isHashTableInitialized = 1

\* ------------------------------------------------------------------------
\* Claims about the completion handler during an area update, and about
\* the colour of lines
\* ------------------------------------------------------------------------
\* C28: the handler of the completion of a block transfer that
\* OLED_UpdateArea started begins no block transfer, and leaves the busy
\* flag and the display-buffer designation as they are.
C28_AreaCompletionIsLocal ==
    [][(pc = "area_dma" /\ last' = "OLED_DMA_IRQHandler")
       => /\ ~dma'.on
          /\ OLED_DMA_TransferBusy' = OLED_DMA_TransferBusy
          /\ OLED_DISPLAY_GRAM' = OLED_DISPLAY_GRAM]_vars

\* C30: after OLED_DrawLine(xa, y, xb, y, BLACK) with both end points on
\* the screen every pixel of row y in columns min(xa, xb)..max(xa, xb) of
\* the active bitmap is dark.
C30_BlackLineClears ==
    ( /\ call.op = "OLED_DrawLine"
      /\ phase = 1
      /\ call.color = OLED_COLOR_BLACK
      /\ call.y0 = call.y1
      /\ OnScreen(call.x0, call.y0)
      /\ OnScreen(call.x1, call.y1) )
    => \A c \in Columns :
          ((call.x0 <= c /\ c <= call.x1) \/ (call.x1 <= c /\ c <= call.x0))
          => Bit(fb[OLED_GRAM][call.y0 \div 8][c], call.y0 % 8) = 0

\* ------------------------------------------------------------------------
\* Shapes: rectangles, areas, glyphs and arcs on the byte image
\* ------------------------------------------------------------------------
\* OLED_CHECK_RECTANGLE: TRUE when the macro makes the caller return
OLED_CHECK_RECTANGLE(x, y, w, h) ==
    w = 0 \/ h = 0 \/ x >= OLED_WIDTH \/ y >= OLED_HEIGHT

\* if (v >= n) v %= n;  if (v < 0) v = n + (v % n);   (% of C: the sign of
\* the remainder is the sign of v)
WrapCoord(v, n) ==
    IF v >= n THEN v % n
    ELSE IF v < 0 THEN n + (v - n * CDiv(v, n))
    ELSE v

\* for (j = Y; j < Y + Height; j++) OLED_DrawPoint(x, j % 64, 1)
\* with x on the screen and Y + Height below 256
FillColumnOn(img, act, x, Y, Height) ==
    [img EXCEPT ![act] = [p \in Pages |-> [img[act][p] EXCEPT ![x] =
        FromBits([k \in ByteBitIdx |->
            IF \E j \in Y .. (Y + Height - 1) : j % OLED_HEIGHT = ByteBits * p + k
            THEN 1 ELSE Bit(img[act][p][x], k)], 0)]]]

\* the remainder of C: a - b * (a / b)
CRem(a, b) == a - b * CDiv(a, b)

\* OLED_ClearArea: the bits it clears, as <<page, column, bit>> with the
\* page and column indices as the code computes them; bits[page][k] tells
\* whether the loops of page reach bit k
ClearAreaBits(X, Y, Width, Height) ==
    LET w == IF X + Width > OLED_WIDTH THEN (OLED_WIDTH - X) % Uint8Mod ELSE Width
        h == IF Y + Height > OLED_HEIGHT THEN (OLED_HEIGHT - Y) % Uint8Mod ELSE Height
        startPage == CDiv(Y, ByteBits) % Uint8Mod
        endPage   == CDiv(Y + h - 1, ByteBits) % Uint8Mod
        startBit  == CRem(Y, ByteBits) % Uint8Mod
        endBit    == CRem(Y + h - 1, ByteBits) % Uint8Mod
        startY(page) == IF page = startPage THEN startBit ELSE 0
        endY(page)   == IF page = endPage THEN endBit ELSE ByteBits - 1
    IN  IF startPage = endPage /\ startBit = 0 /\ endBit = ByteBits - 1
        THEN {<<startPage, x, k>> : x \in X .. (X + w - 1), k \in ByteBitIdx}
        ELSE {t \in (startPage .. endPage) \X (X .. (X + w - 1)) \X ByteBitIdx :
                 startY(t[1]) <= t[3] /\ t[3] <= endY(t[1])}

\* the indices among bits that lie outside pages 0..7 or columns 0..127
OutsideOf(bits) ==
    {<<t[1], t[2]>> : t \in {u \in bits : u[1] \notin Pages \/ u[2] \notin Columns}}

\* img after the bits are cleared: byte [page][x] of the active bitmap is
\* the byte at offset page * 128 + x of the array; offsets outside the
\* array are not part of the image
ClearBitsOn(img, act, bits) ==
    [img EXCEPT ![act] = [p \in Pages |-> [c \in Columns |->
        FromBits([k \in ByteBitIdx |->
            IF \E d \in {-1, 0, 1} :
                  <<p + d, c - d * OLED_COLUMN_COUNT, k>> \in bits
            THEN 0 ELSE Bit(img[act][p][c], k)], 0)]]]

\* OLED_ReverseRectangle past the parameter check, for the calls whose
\* loops end: the <<page, column, bit>> sets its loops toggle, one set per
\* loop: top side, bottom side, left side, right side (border only), or the
\* one double loop (filled)
ReverseRectangleBits(X0, Y0, Width, Height, IsFilled) ==
    LET X  == WrapCoord(X0, OLED_WIDTH)
        Y  == WrapCoord(Y0, OLED_HEIGHT)
        x2 == ((X + Width - 1) % OLED_WIDTH) % Uint8Mod
        y2 == ((Y + Height - 1) % OLED_HEIGHT) % Uint8Mod
        start_y == ((Y + 1) % OLED_HEIGHT) % Uint8Mod
        end_y   == CRem(Y + Height - 2, OLED_HEIGHT) % Uint8Mod
        js == IF start_y <= end_y
              THEN start_y .. end_y
              ELSE (start_y .. (OLED_HEIGHT - 1)) \cup (0 .. end_y)
        is == X .. (X + Width - 1)
    IN  IF IsFilled = 0
        THEN << {<<CDiv(Y, ByteBits), i % OLED_WIDTH, Y % ByteBits>> : i \in is},
                {<<CDiv(y2, ByteBits), i % OLED_WIDTH, y2 % ByteBits>> : i \in is},
                {<<CDiv(j, ByteBits), X, j % ByteBits>> : j \in js},
                {<<CDiv(j, ByteBits), x2, j % ByteBits>> : j \in js} >>
        ELSE << {<<CDiv(j % OLED_HEIGHT, ByteBits), i % OLED_WIDTH, j % ByteBits>> :
                    i \in is, j \in Y .. (Y + Height - 1)} >>

\* img after every bit is toggled once for each loop that reaches it
ToggleBitsOn(img, act, loops) ==
    [img EXCEPT ![act] = [p \in Pages |-> [c \in Columns |->
        FromBits([k \in ByteBitIdx |->
            LET times == Cardinality({n \in DOMAIN loops :
                             \E d \in {-1, 0, 1} :
                                <<p + d, c - d * OLED_COLUMN_COUNT, k>> \in loops[n]})
            IN  (Bit(img[act][p][c], k) + times) % 2], 0)]]]

\* PointAngle = atan2(Y, X) / 3.14 * 180 as stored in an int16_t (the
\* fraction is dropped), tabulated for the offsets -3..3 that arcs of
\* radius up to MaxRadius + 1 test: right[|X| + 1][|Y| + 1] for X >= 0,
\* left[|X|][|Y| + 1] for X < 0, negated for Y < 0
PointAngle(X, Y) ==
    LET ax == IF X < 0 THEN -X ELSE X
        ay == IF Y < 0 THEN -Y ELSE Y
        right == << <<0, 90, 90, 90>>, <<0, 45, 63, 71>>,
                    <<0, 26, 45, 56>>, <<0, 18, 33, 45>> >>
        left  == << <<180, 135, 116, 108>>, <<180, 153, 135, 123>>,
                    <<180, 161, 146, 135>> >>
        angle == IF X >= 0 THEN right[ax + 1][ay + 1] ELSE left[ax][ay + 1]
    IN  IF Y < 0 THEN -angle ELSE angle

\* OLED_IsInAngle: TRUE when it returns 1
OLED_IsInAngle(X, Y, StartAngle, EndAngle) ==
    IF StartAngle < EndAngle
    THEN PointAngle(X, Y) >= StartAngle /\ PointAngle(X, Y) <= EndAngle
    ELSE PointAngle(X, Y) >= StartAngle \/ PointAngle(X, Y) <= EndAngle

\* the points of one pass of OLED_DrawArc at (x, y), as
\* <<tested offset x, y, plotted offset x, y>>
ArcPoints(x, y, IsFilled) ==
    {<<x, y, x, y>>, <<y, x, y, x>>, <<-x, -y, -x, -y>>, <<-y, -x, -y, -x>>,
     <<x, -y, x, y>>, <<y, -x, y, -x>>, <<-x, y, -x, y>>, <<-y, x, -y, x>>}
    \cup (IF IsFilled = 0 THEN {}
          ELSE UNION {{<<x, j, x, j>>, <<-x, j, -x, j>>} : j \in (-y) .. (y - 1)}
               \cup UNION {{<<-y, j, -y, j>>, <<y, j, y, j>>} : j \in (-x) .. (x - 1)})

\* while (x < y) of OLED_DrawArc
RECURSIVE ArcLoop(_, _, _, _)
ArcLoop(x, y, d, IsFilled) ==
    IF x < y
    THEN LET x1 == x + 1
             y1 == IF d < 0 THEN y ELSE y - 1
             d1 == IF d < 0 THEN d + 2 * x1 + 1 ELSE d + 2 * (x1 - y1) + 1
         IN  ArcPoints(x1, y1, IsFilled) \cup ArcLoop(x1, y1, d1, IsFilled)
    ELSE {}

\* OLED_DrawArc: OLED_DrawPoint(X + px, Y + py, 1) for every point whose
\* tested offset OLED_IsInAngle accepts
DrawArcOn(img, act, X, Y, Radius, StartAngle, EndAngle, IsFilled) ==
    LET first == {<<0, Radius, 0, Radius>>, <<0, -Radius, 0, -Radius>>,
                  <<Radius, 0, Radius, 0>>, <<-Radius, 0, -Radius, 0>>}
                 \cup (IF IsFilled = 0 THEN {}
                       ELSE {<<0, j, 0, j>> : j \in (-Radius) .. (Radius - 1)})
        points == first \cup ArcLoop(0, Radius, 1 - Radius, IsFilled)
        plotted == {<<X + t[3], Y + t[4]>> :
                       t \in {u \in points :
                                OLED_IsInAngle(u[1], u[2], StartAngle, EndAngle)}}
    IN  [img EXCEPT ![act] = [p \in Pages |-> [c \in Columns |->
            FromBits([k \in ByteBitIdx |->
                IF <<c, ByteBits * p + k>> \in plotted
                THEN 1 ELSE Bit(img[act][p][c], k)], 0)]]]

\* OLED_DrawASCIIFast on the byte image, past its parameter check; fontData
\* is the row of OLED_F8x16 or OLED_F6x8 that c selects (1-based here)
DrawASCIIFastOn(img, act, x, y, fontData, fontHeight) ==
    LET pageStart == CDiv(y, ByteBits) % Uint8Mod
        bitOffset == (y % ByteBits) % Uint8Mod
        shifted(data) == (data * (2 ^ bitOffset)) % Uint8Mod
        spilled(data) == data \div (2 ^ (ByteBits - bitOffset))
        \* what the glyph page `page` ORs into byte [p][x + col]
        part(page, p, col) ==
            LET data == fontData[page * ByteBits + col + 1]
                destPage == pageStart + page
            IN  IF destPage >= OLED_PAGE_COUNT THEN 0
                ELSE IF bitOffset > 0 /\ page = 0
                THEN IF p = destPage THEN shifted(data)
                     ELSE IF p = destPage + 1 /\ destPage + 1 < OLED_PAGE_COUNT
                     THEN spilled(data) ELSE 0
                ELSE IF p = destPage THEN data ELSE 0
        columns == IF fontHeight = OLED_8X16 THEN ByteBits
                   ELSE IF fontHeight = OLED_6X8 THEN OLED_6X8 - 2 ELSE 0
        pages == IF fontHeight = OLED_8X16 THEN {0, 1} ELSE {0}
    IN  [img EXCEPT ![act] = [p \in Pages |-> [c \in Columns |->
            IF c - x \in 0 .. (columns - 1)
            THEN IF fontHeight = OLED_8X16
                 THEN ByteOr(ByteOr(img[act][p][c], part(0, p, c - x)),
                             part(1, p, c - x))
                 ELSE ByteOr(img[act][p][c], part(0, p, c - x))
            ELSE img[act][p][c]]]]

\* rows of the font tables: a diagonal stroke and a full cell
Glyphs == { <<1, 2, 4, 8, 16, 32, 64, 128, 128, 64, 32, 16, 8, 4, 2, 1>>,
            [n \in 1 .. 2 * ByteBits |-> Uint8Mod - 1] }

AreaXs == {-2, 0, 120}
AreaYs == {-1, 0, 4, 60}
AreaSizes == {<<8, 2>>, <<10, 8>>, <<8, 10>>}

RectXs == {-128, -3, 5, 130}
RectYs == {-2, 62}
RectSizes == {<<3, 2>>, <<128, 1>>, <<0, 5>>}

ShapeCalls ==
    {[op |-> "OLED_DrawRectangle", X |-> x, Y |-> y, Width |-> wh[1],
      Height |-> wh[2], IsFilled |-> f] :
         x \in RectXs, y \in RectYs, wh \in RectSizes, f \in {0, 1}}
    \cup {[op |-> "OLED_ClearArea", X |-> x, Y |-> y, Width |-> wh[1],
           Height |-> wh[2], IsFilled |-> 0] :
              x \in AreaXs, y \in AreaYs, wh \in AreaSizes}
    \cup {[op |-> "OLED_ReverseRectangle", X |-> x, Y |-> y, Width |-> wh[1],
           Height |-> wh[2], IsFilled |-> f] :
              x \in {-3, 5}, y \in {-2, 10},
              wh \in {<<4, 4>>, <<4, 3>>, <<4, 2>>, <<3, 1>>, <<1, 3>>},
              f \in {0, 1}}
    \cup {[op |-> "OLED_DrawASCIIFast", x |-> x, y |-> y, c |-> c,
           fontHeight |-> h, fontData |-> g] :
              x \in {-1, 0, 124}, y \in {0, 4, 52, 60}, c \in {CharSpace - 1, 65},
              h \in {OLED_6X8, 12, OLED_8X16}, g \in Glyphs}
    \cup {[op |-> "OLED_DrawArc", X |-> x, Y |-> 10, Radius |-> r,
           StartAngle |-> a[1], EndAngle |-> a[2], IsFilled |-> f] :
              x \in {0, 10}, r \in 1 .. MaxRadius,
              a \in {<<-90, 0>>, <<0, 90>>, <<90, -90>>, <<-180, 180>>},
              f \in {0, 1}}

ShapeInit ==
    /\ InitStatics
    /\ InitText
    /\ \E seed \in Seeds : fb = Background(seed)
    /\ fb0 = fb
    /\ outside = {}
    /\ rect = NoRect
    /\ divisors = {}
    /\ gram = GramView(fb)
    /\ call \in ShapeCalls
    /\ phase = 0

\* what a step of a shape call leaves alone
ShapeUnchanged ==
    /\ UNCHANGED <<OLED_GRAM, OLED_DISPLAY_GRAM, active_buffer, display_buffer,
                   OLED_DMA_TransferBusy, OLED_DMA_TransferComplete,
                   current_dma_page, current_dma_buffer, dma, area, ret>>
    /\ UNCHANGED <<session, begun, completions, disp_writes, timed_out,
                   req_active, snapshot, sent, committed, area_page0,
                   area_calls>>
    /\ UNCHANGED <<fb0, call, divisors, textVars>>

RectPcs == {"rect_top", "rect_side", "rect_fill"}

\* OLED_DrawRectangle: the parameter check and the wrap of X and Y
OLED_DrawRectangle_Enter ==
    /\ pc = "idle"
    /\ call.op = "OLED_DrawRectangle"
    /\ phase = 0
    /\ last' = "OLED_DrawRectangle"
    /\ IF OLED_CHECK_RECTANGLE(call.X, call.Y, call.Width, call.Height)
       THEN /\ phase' = 1
            /\ UNCHANGED <<pc, rect>>
       ELSE LET X == WrapCoord(call.X, OLED_WIDTH)
                Y == WrapCoord(call.Y, OLED_HEIGHT)
            IN  /\ rect' = [X |-> X, Y |-> Y, i |-> X % Uint8Mod]
                /\ pc' = IF call.IsFilled = 0 THEN "rect_top" ELSE "rect_fill"
                /\ UNCHANGED phase
    /\ UNCHANGED <<fb, gram, outside>>
    /\ ShapeUnchanged

\* for (i = X; i < X + Width; i++): the top and the bottom side
OLED_DrawRectangle_Top ==
    /\ pc = "rect_top"
    /\ IF rect.i < rect.X + call.Width
       THEN /\ fb' = DrawPointOn(
                        DrawPointOn(fb, OLED_GRAM, rect.i % OLED_WIDTH, rect.Y,
                                    OLED_COLOR_WHITE),
                        OLED_GRAM, rect.i % OLED_WIDTH,
                        (rect.Y + call.Height - 1) % OLED_HEIGHT,
                        OLED_COLOR_WHITE)
            /\ rect' = [rect EXCEPT !.i = (@ + 1) % Uint8Mod]
            /\ UNCHANGED pc
       ELSE /\ rect' = [rect EXCEPT !.i = rect.Y % Uint8Mod]
            /\ pc' = "rect_side"
            /\ UNCHANGED fb
    /\ gram' = GramView(fb')
    /\ UNCHANGED <<phase, outside, last>>
    /\ ShapeUnchanged

\* for (i = Y; i < Y + Height; i++): the left and the right side
OLED_DrawRectangle_Side ==
    /\ pc = "rect_side"
    /\ IF rect.i < rect.Y + call.Height
       THEN /\ fb' = DrawPointOn(
                        DrawPointOn(fb, OLED_GRAM, rect.X, rect.i % OLED_HEIGHT,
                                    OLED_COLOR_WHITE),
                        OLED_GRAM, (rect.X + call.Width - 1) % OLED_WIDTH,
                        rect.i % OLED_HEIGHT, OLED_COLOR_WHITE)
            /\ rect' = [rect EXCEPT !.i = (@ + 1) % Uint8Mod]
            /\ UNCHANGED <<pc, phase>>
       ELSE /\ pc' = "idle"
            /\ phase' = 1
            /\ UNCHANGED <<fb, rect>>
    /\ gram' = GramView(fb')
    /\ UNCHANGED <<outside, last>>
    /\ ShapeUnchanged

\* for (i = X; i < X + Width; i++) for (j = Y; j < Y + Height; j++)
OLED_DrawRectangle_Fill ==
    /\ pc = "rect_fill"
    /\ IF rect.i < rect.X + call.Width
       THEN /\ fb' = FillColumnOn(fb, OLED_GRAM, rect.i % OLED_WIDTH, rect.Y,
                                  call.Height)
            /\ rect' = [rect EXCEPT !.i = (@ + 1) % Uint8Mod]
            /\ UNCHANGED <<pc, phase>>
       ELSE /\ pc' = "idle"
            /\ phase' = 1
            /\ UNCHANGED <<fb, rect>>
    /\ gram' = GramView(fb')
    /\ UNCHANGED <<outside, last>>
    /\ ShapeUnchanged

\* OLED_ClearArea, whole
OLED_ClearArea ==
    /\ pc = "idle"
    /\ call.op = "OLED_ClearArea"
    /\ phase = 0
    /\ LET bits == IF OLED_CHECK_RECTANGLE(call.X, call.Y, call.Width, call.Height)
                   THEN {}
                   ELSE ClearAreaBits(call.X, call.Y, call.Width, call.Height)
       IN  /\ fb' = ClearBitsOn(fb, OLED_GRAM, bits)
           /\ outside' = OutsideOf(bits)
    /\ gram' = GramView(fb')
    /\ phase' = 1
    /\ last' = "OLED_ClearArea"
    /\ UNCHANGED <<pc, rect>>
    /\ ShapeUnchanged

\* OLED_ReverseRectangle, whole
OLED_ReverseRectangle ==
    /\ pc = "idle"
    /\ call.op = "OLED_ReverseRectangle"
    /\ phase = 0
    /\ LET loops == IF OLED_CHECK_RECTANGLE(call.X, call.Y, call.Width, call.Height)
                    THEN << >>
                    ELSE ReverseRectangleBits(call.X, call.Y, call.Width,
                                              call.Height, call.IsFilled)
       IN  /\ fb' = ToggleBitsOn(fb, OLED_GRAM, loops)
           /\ outside' = OutsideOf(UNION {loops[n] : n \in DOMAIN loops})
    /\ gram' = GramView(fb')
    /\ phase' = 1
    /\ last' = "OLED_ReverseRectangle"
    /\ UNCHANGED <<pc, rect>>
    /\ ShapeUnchanged

\* OLED_DrawArc, whole
OLED_DrawArc ==
    /\ pc = "idle"
    /\ call.op = "OLED_DrawArc"
    /\ phase = 0
    /\ fb' = DrawArcOn(fb, OLED_GRAM, call.X, call.Y, call.Radius,
                       call.StartAngle, call.EndAngle, call.IsFilled)
    /\ gram' = GramView(fb')
    /\ phase' = 1
    /\ last' = "OLED_DrawArc"
    /\ UNCHANGED <<pc, rect, outside>>
    /\ ShapeUnchanged

\* OLED_DrawASCIIFast, whole
DrawASCIIFast ==
    /\ pc = "idle"
    /\ call.op = "OLED_DrawASCIIFast"
    /\ phase = 0
    /\ fb' = IF \/ OLED_CHECK_COORDINATES(call.x, call.y)
                \/ call.c < CharSpace
                \/ call.c > CharTilde
             THEN fb
             ELSE DrawASCIIFastOn(fb, OLED_GRAM, call.x, call.y, call.fontData,
                                  call.fontHeight)
    /\ gram' = GramView(fb')
    /\ phase' = 1
    /\ last' = "OLED_DrawASCIIFast"
    /\ UNCHANGED <<pc, rect, outside>>
    /\ ShapeUnchanged

ShapeNext ==
    \/ OLED_ClearArea
    \/ DrawASCIIFast
    \/ OLED_DrawArc
    \/ OLED_ReverseRectangle
    \/ OLED_DrawRectangle_Enter
    \/ OLED_DrawRectangle_Top
    \/ OLED_DrawRectangle_Side
    \/ OLED_DrawRectangle_Fill

ShapeSpec == ShapeInit /\ [][ShapeNext]_vars

\* a rectangle call that is running goes on running: the processor executes
\* the next instruction of its loops
ShapeLive ==
    ShapeSpec /\ WF_vars(OLED_DrawRectangle_Enter \/ OLED_DrawRectangle_Top
                            \/ OLED_DrawRectangle_Side
                            \/ OLED_DrawRectangle_Fill)

\* ------------------------------------------------------------------------
\* Claims about the shapes
\* ------------------------------------------------------------------------
\* C21: after a filled OLED_DrawRectangle(X, Y, Width, Height) the lit
\* pixels of the active bitmap are those lit before and the pixels
\* ((X + i) mod 128, (Y + j) mod 64), i < Width, j < Height; the other
\* bitmap is as it was.
C21_FilledWraps ==
    ( /\ call.op = "OLED_DrawRectangle"
      /\ call.IsFilled = 1
      /\ phase = 1 )
    => \A b \in Bitmaps, p \in Pages, c \in Columns, k \in ByteBitIdx :
          Bit(fb[b][p][c], k) =
             IF /\ b = OLED_GRAM
                /\ (c - call.X) % OLED_WIDTH < call.Width
                /\ (ByteBits * p + k - call.Y) % OLED_HEIGHT < call.Height
             THEN 1
             ELSE Bit(fb0[b][p][c], k)

\* C29: every OLED_DrawRectangle call that was begun returns.
C29_RectangleReturns ==
    (pc \in RectPcs) ~> (pc = "idle")

\* C27: after OLED_ClearArea(X, Y, Width, Height) the pixels of
\* [X, X + Width) x [Y, Y + Height) that are on the screen are dark in the
\* active bitmap, every other bit of both bitmaps is as it was, and every
\* index the call used lies within pages 0..7 and columns 0..127.
C27_ClearAreaExact ==
    (call.op = "OLED_ClearArea" /\ phase = 1)
    => /\ outside = {}
       /\ \A b \in Bitmaps, p \in Pages, c \in Columns, k \in ByteBitIdx :
             Bit(fb[b][p][c], k) =
                IF /\ b = OLED_GRAM
                   /\ call.X <= c /\ c < call.X + call.Width
                   /\ call.Y <= ByteBits * p + k
                   /\ ByteBits * p + k < call.Y + call.Height
                THEN 0
                ELSE Bit(fb0[b][p][c], k)

\* C22: after a border-only OLED_ReverseRectangle(X, Y, Width, Height) the
\* pixels ((X + i) mod 128, (Y + j) mod 64) with i in {0, Width - 1} or
\* j in {0, Height - 1} (i < Width, j < Height) of the active bitmap are
\* the opposite of what they were, and every other bit is as it was.
C22_BorderOnce ==
    ( /\ call.op = "OLED_ReverseRectangle"
      /\ call.IsFilled = 0
      /\ phase = 1 )
    => \A b \in Bitmaps, p \in Pages, c \in Columns, k \in ByteBitIdx :
          LET i == (c - call.X) % OLED_WIDTH
              j == (ByteBits * p + k - call.Y) % OLED_HEIGHT
          IN  Bit(fb[b][p][c], k) =
                 IF /\ b = OLED_GRAM
                    /\ i < call.Width /\ j < call.Height
                    /\ (i \in {0, call.Width - 1} \/ j \in {0, call.Height - 1})
                 THEN 1 - Bit(fb0[b][p][c], k)
                 ELSE Bit(fb0[b][p][c], k)

\* C23: every pixel that OLED_DrawArc lights, at offset (dx, dy) from the
\* centre, is one for which OLED_IsInAngle(dx, dy, StartAngle, EndAngle)
\* returns 1 -- outline and filled.
C23_ArcInsideAngle ==
    (call.op = "OLED_DrawArc" /\ phase = 1)
    => \A p \in Pages, c \in Columns, k \in ByteBitIdx :
          (Bit(fb[OLED_GRAM][p][c], k) = 1 /\ Bit(fb0[OLED_GRAM][p][c], k) = 0)
          => OLED_IsInAngle(c - call.X, ByteBits * p + k - call.Y,
                            call.StartAngle, call.EndAngle)

\* C24: after a printable character is rendered at (x, y) on the screen,
\* in the 6x8 or the 8x16 font, a pixel (x + col, y + row) of the active
\* bitmap is lit when bit (col, row) of the glyph is set, and every other
\* bit is as it was -- for every y, multiple of 8 or not.
C24_GlyphPixels ==
    ( /\ call.op = "OLED_DrawASCIIFast"
      /\ phase = 1
      /\ OnScreen(call.x, call.y)
      /\ call.c >= CharSpace /\ call.c <= CharTilde
      /\ call.fontHeight \in {OLED_6X8, OLED_8X16} )
    => \A b \in Bitmaps, p \in Pages, c \in Columns, k \in ByteBitIdx :
          LET col == c - call.x
              row == ByteBits * p + k - call.y
              width == IF call.fontHeight = OLED_8X16 THEN ByteBits
                       ELSE OLED_6X8 - 2
          IN  Bit(fb[b][p][c], k) =
                 IF /\ b = OLED_GRAM
                    /\ col \in 0 .. (width - 1)
                    /\ row \in 0 .. (call.fontHeight - 1)
                    /\ Bit(call.fontData[ByteBits * (row \div ByteBits) + col + 1],
                           row % ByteBits) = 1
                 THEN 1
                 ELSE Bit(fb0[b][p][c], k)

\* ------------------------------------------------------------------------
\* Charts: the arithmetic of OLED_DrawLineChart and OLED_DrawTimeLineChart
\* on int16_t data; the lines and labels they draw are not followed
\* ------------------------------------------------------------------------
ChartCalls ==
    [op : {"OLED_DrawLineChart", "OLED_DrawTimeLineChart"},
     width : {0, 64, OLED_WIDTH}, height : {0, 32, OLED_HEIGHT},
     yData : {<<7>>, <<5, 5>>, <<1, 3>>, <<-32768, 32767>>, <<2, 9, 4>>},
     drawAxis : {0, 1}]

ChartInit ==
    /\ InitStatics
    /\ InitText
    /\ gram = [b \in Bitmaps |-> [p \in Pages |-> 0]]
    /\ fb = << >>
    /\ fb0 = << >>
    /\ outside = {}
    /\ rect = NoRect
    /\ divisors = {}
    /\ call \in ChartCalls
    /\ phase = 0

\* what a chart call leaves alone
ChartUnchanged ==
    /\ UNCHANGED <<progVars, fb, fb0, call, rect, outside, textVars>>
    /\ UNCHANGED <<session, begun, completions, disp_writes, timed_out,
                   req_active, snapshot, sent, committed, area_page0,
                   area_calls>>

\* maximum minus minimum of the data
DataRange(data) ==
    LET maxY == CHOOSE v \in {data[n] : n \in DOMAIN data} :
                    \A n \in DOMAIN data : data[n] <= v
        minY == CHOOSE v \in {data[n] : n \in DOMAIN data} :
                    \A n \in DOMAIN data : data[n] >= v
    IN  maxY - minY

\* OLED_DrawLineChart with xData = yData: it divides by xRange and yRange
\* (1 in place of 0) and, with axes, by pointCount
OLED_DrawLineChart ==
    /\ pc = "idle"
    /\ call.op = "OLED_DrawLineChart"
    /\ phase = 0
    /\ LET pointCount == Len(call.yData)
           \* int16_t xRange = maxX - minX
           range == ((DataRange(call.yData) + Uint16Mod \div 2) % Uint16Mod)
                        - Uint16Mod \div 2
           xRange == IF range = 0 THEN 1 ELSE range
       IN  divisors' = IF pointCount < 2 THEN {}
                       ELSE {xRange} \cup (IF call.drawAxis # 0 THEN {pointCount}
                                           ELSE {})
    /\ phase' = 1
    /\ last' = "OLED_DrawLineChart"
    /\ ChartUnchanged

\* OLED_DrawTimeLineChart with showLatest = 0: with axes it divides by
\* width (time labels) and by height (value labels); always by meanCount,
\* by maxYf - minYf (12 tenths of the range, 1 in place of range 0) and by
\* displayCount - 1
OLED_DrawTimeLineChart ==
    /\ pc = "idle"
    /\ call.op = "OLED_DrawTimeLineChart"
    /\ phase = 0
    /\ LET displayCount == Len(call.yData)
           \* if (maxYf == minYf) maxYf = minYf + 1.0f
           rangeFloat == IF DataRange(call.yData) = 0 THEN 1
                         ELSE DataRange(call.yData)
       IN  divisors' = IF displayCount < 2 THEN {}
                       ELSE (IF call.drawAxis # 0 THEN {call.width, call.height}
                             ELSE {})
                            \cup {displayCount, 12 * rangeFloat, displayCount - 1}
    /\ phase' = 1
    /\ last' = "OLED_DrawTimeLineChart"
    /\ ChartUnchanged

ChartNext ==
    \/ OLED_DrawLineChart
    \/ OLED_DrawTimeLineChart

ChartSpec == ChartInit /\ [][ChartNext]_vars

\* C25: no chart call divides by zero.
C25_NoZeroDivisor == 0 \notin divisors

\* ------------------------------------------------------------------------
\* Glyph lookup: OLED_FindChineseChar against catalogs of distinct keys
\* ------------------------------------------------------------------------
\* a catalog of n distinct three-byte keys
Catalog(n) == [k \in 1 .. n |-> <<228, 184 + (k \div 64), 128 + (k % 64)>>]

FindCalls ==
    [op : {"OLED_FindChineseChar"},
     catalog : {<< <<228, 184, 173>>, <<228, 184>>, <<229, 173, 151, 65>>,
                   <<229, 173, 151, 66>> >>,
                Catalog(HASH_TABLE_SIZE - 1), Catalog(HASH_TABLE_SIZE),
                Catalog(MaxGlyphs)},
     chineseChar : {<< >>, <<228, 184>>, <<228, 184, 173>>, <<228, 184, 173, 65>>,
                    <<229, 173, 151, 66>>, <<230, 129, 129>>}
                   \cup {Catalog(MaxGlyphs)[k] :
                            k \in {1, 2, 64, HASH_TABLE_SIZE, MaxGlyphs}}]

GlyphInit ==
    /\ InitStatics
    /\ InitText
    /\ gram = [b \in Bitmaps |-> [p \in Pages |-> 0]]
    /\ fb = << >>
    /\ fb0 = << >>
    /\ outside = {}
    /\ rect = NoRect
    /\ divisors = {}
    /\ call \in FindCalls
    /\ phase = 0

\* what a lookup leaves alone
GlyphUnchanged ==
    /\ UNCHANGED <<gram, OLED_GRAM, OLED_DISPLAY_GRAM, active_buffer,
                   display_buffer, OLED_DMA_TransferBusy,
                   OLED_DMA_TransferComplete, current_dma_page,
                   current_dma_buffer, dma, area, ret>>
    /\ UNCHANGED <<session, begun, completions, disp_writes, timed_out,
                   req_active, snapshot, sent, committed, area_page0,
                   area_calls>>
    /\ UNCHANGED <<drawVars, strPtr, currentX, currentY>>

GlyphPcs == {"hash_init", "hash_find"}

\* OLED_FindChineseChar(chineseChar), called up to two times in a row: the
\* first call builds the index
FindChineseChar_Enter ==
    /\ pc = "idle"
    /\ call.op = "OLED_FindChineseChar"
    /\ Len(drawn) < 2
    /\ last' = "OLED_FindChineseChar"
    /\ IF isHashTableInitialized = 0
       THEN /\ pc' = "hash_init"
            /\ chineseHashTable' = << >>
            /\ catalog_i' = 0
       ELSE /\ pc' = "hash_find"
            /\ UNCHANGED <<chineseHashTable, catalog_i>>
    /\ UNCHANGED <<drawn, isHashTableInitialized>>
    /\ GlyphUnchanged

\* one pass of the loop of OLED_InitChineseHashTable
InitChineseHashTable_Step ==
    /\ pc = "hash_init"
    /\ IF catalog_i < Len(OLED_CF16x16) /\ OLED_CF16x16[catalog_i + 1] # << >>
       THEN /\ chineseHashTable' = InsertEntry(chineseHashTable, catalog_i + 1)
            /\ catalog_i' = (catalog_i + 1) % Uint8Mod
            /\ UNCHANGED <<pc, isHashTableInitialized>>
       ELSE /\ isHashTableInitialized' = 1
            /\ pc' = "hash_find"
            /\ UNCHANGED <<chineseHashTable, catalog_i>>
    /\ UNCHANGED <<drawn, last>>
    /\ GlyphUnchanged

\* the probing of OLED_FindChineseChar; the entry it returns is appended to
\* drawn (0 for NULL)
FindChineseChar_Probe ==
    /\ pc = "hash_find"
    /\ drawn' = Append(drawn, OLED_FindChineseChar(chineseHashTable,
                                                   call.chineseChar, 0))
    /\ pc' = "idle"
    /\ UNCHANGED <<chineseHashTable, isHashTableInitialized, catalog_i, last>>
    /\ GlyphUnchanged

GlyphNext ==
    \/ FindChineseChar_Enter
    \/ InitChineseHashTable_Step
    \/ FindChineseChar_Probe

GlyphSpec == GlyphInit /\ [][GlyphNext]_vars

\* the first catalog entry whose first 3 key bytes are those of str, if
\* there is one and the index holds it; 0 otherwise
LinearSearch(table, str) ==
    LET match == {k \in 1 .. Len(OLED_CF16x16) : StrnEq(OLED_CF16x16[k], str, 0, 0)}
        first == CHOOSE k \in match : \A m \in match : k <= m
    IN  IF str = << >> \/ match = {} THEN 0
        ELSE IF first \in {table[s] : s \in DOMAIN table} THEN first
        ELSE 0

\* C26: every lookup returns what a linear search of the catalog returns
\* (the first entry whose first 3 key bytes equal those of the input, if
\* the index holds that entry, and NULL otherwise), whether the index is
\* full or not; and a lookup on the built index leaves the index as it is.
C26_LookupAgrees ==
    /\ [](call.op = "OLED_FindChineseChar"
          => \A n \in 1 .. Len(drawn) :
                drawn[n] = LinearSearch(chineseHashTable, call.chineseChar))
    /\ [][isHashTableInitialized = 1
          => chineseHashTable' = chineseHashTable]_vars

\* a key that is not in the index is looked up in a full index, twice
C26_Witness ==
    /\ call.op = "OLED_FindChineseChar"
    /\ pc = "idle"
    /\ Cardinality(DOMAIN chineseHashTable) = HASH_TABLE_SIZE
    /\ call.chineseChar # << >>
    /\ drawn = <<0, 0>>
====
